---------------------------- MODULE Spec2Model ----------------------------
(***************************************************************************)
(* Model of SmartLipikor's document export (src/services/exportService.ts).*)
(*                                                                         *)
(* Strings that the code inspects character by character (span texts,      *)
(* size / length / colour tokens) are sequences of UTF-16 code units, the  *)
(* unit JavaScript indexes a string by.  Strings the code only compares    *)
(* with literals (block types, languages, font names) are TLA+ strings.    *)
(* An optional field is None when absent and Some(v) when present.         *)
(***************************************************************************)
EXTENDS Integers, Sequences, FiniteSets, TLC

VARIABLES
    runsCall,       \* arguments of one createTextRunsFromSpans call
    runsRet,        \* what that call computed: textLines, segments, allRuns
    ptCall,         \* arguments of one parsePtStringToNumber call
    ptRet,          \* its return value
    fontCalls,      \* arguments of two mapFontFamilyToDocx calls
    fontRet,        \* the two font names returned
    blocks,         \* the document handed to generateDocx
    targetApplication, \* 'word' | 'gdocs'
    docxObjects,    \* createDocumentContent's result
    pc,             \* position of the generateDocx call
    packerError,    \* the error Packer.toBlob rejected with, if it did
    rejected,       \* the error generateDocx's promise rejected with, if it did
    savedFiles,     \* the saveAs calls made so far, in order
    formattedText,  \* the App component's document state
    spanEdit,       \* arguments of the latest handleSpanTextChange call
    ai,             \* whether the GoogleGenAI client was constructed
    chatHistory,    \* the App component's chat messages, in order
    aiChatError,    \* the App component's aiChatError state
    isAIChatProcessing, \* the App component's isAIChatProcessing state
    chatCalls,      \* number of handleAIChatSubmit calls made
    chatCall,       \* the handleAIChatSubmit call awaiting its response
    chatReturn,     \* how the latest handleAIChatSubmit call ended
    isLoading,      \* the App component's isLoading state
    error,          \* the App component's error state
    currentStage,   \* the App component's currentStage state
    progressPercent, \* the App component's progressPercent state
    exportCall,     \* the handleExport call awaiting its generator
    exportLog,      \* how each handleExport call ended, in order
    timers,         \* the setTimeout callbacks not yet run, in order
    now,            \* the time, in ms
    debounceTimers, \* the pending debounce timers of each RenderSpans
    mounted,        \* whether the RenderSpans components are mounted
    isSelectAndCopyModeActive, \* the App component's select-and-copy mode
    lastInput,      \* the latest input event of each span: text and time
    spanInputs,     \* number of input events so far
    spanChanges,    \* number of onSpanTextChange invocations so far
    progressIntervalRef, \* whether the progress interval is running
    imageCall,      \* the processImage call under way
    imageLog        \* how each processImage call ended, in order

vars == <<runsCall, runsRet, ptCall, ptRet, fontCalls, fontRet,
          blocks, targetApplication, docxObjects, pc,
          packerError, rejected, savedFiles, formattedText, spanEdit,
          ai, chatHistory, aiChatError, isAIChatProcessing,
          chatCalls, chatCall, chatReturn,
          isLoading, error, currentStage, progressPercent,
          exportCall, exportLog, timers,
          now, debounceTimers, mounted, isSelectAndCopyModeActive,
          lastInput, spanInputs, spanChanges,
          progressIntervalRef, imageCall, imageLog>>

\* the state of the export service calls, and the state of the App component
serviceVars == <<runsCall, runsRet, ptCall, ptRet, fontCalls, fontRet,
                 blocks, targetApplication, docxObjects, pc,
                 packerError, rejected, savedFiles>>
docVars == <<formattedText, spanEdit>>
chatVars == <<ai, chatHistory, aiChatError, isAIChatProcessing,
              chatCalls, chatCall, chatReturn>>
loadVars == <<isLoading, error, currentStage, progressPercent>>
exportVars == <<exportCall, exportLog, timers>>
viewerVars == <<now, debounceTimers, mounted, isSelectAndCopyModeActive,
                lastInput, spanInputs, spanChanges>>
imageVars == <<progressIntervalRef, imageCall, imageLog>>
restVars == <<viewerVars, imageVars>>
appVars == <<docVars, chatVars, loadVars, exportVars, restVars>>

None == <<>>
Some(v) == <<v>>
IsSome(o) == o # <<>>
Val(o) == o[1]

----------------------------------------------------------------------------
(* Bounds of the model.                                                    *)

MaxLen == 4         \* longest span text, in code units
MaxDigits == 2      \* most digits after "pt" in a size token
MaxCells == 2       \* most cells of the first row of a table
MaxBlocks == 3      \* most blocks of a document
MaxCommands == 2    \* most handleAIChatSubmit calls of a run
MaxExports == 3     \* most handleExport calls of a run
MaxInputs == 3      \* most input events of a run
MaxTime == 1000     \* latest time of a run, in ms
DebounceDelay == 500 \* the delay handleSpanInput hands to setTimeout, in ms
MaxImages == 2      \* most processImage calls of a run
thinkingStartProgress == 15
thinkingEndProgress == 70
thinkingStepIncrement == 1

----------------------------------------------------------------------------
(* Characters and the script classifier.                                   *)

\* JavaScript's \s
IsJsSpace(c) ==
    \/ c \in 9..13
    \/ c \in {32, 160, 5760, 8232, 8233, 8239, 8287, 12288, 65279}
    \/ c \in 8192..8202

BENGALI_REGEX_CHAR(c) == c \in 2432..2559
ARABIC_REGEX_CHAR(c) == c \in 1536..1791 \/ c \in 1872..1919 \/ c \in 2208..2303
LATIN_REGEX_CHAR(c) == c \in 65..90 \/ c \in 97..122
DIGIT_REGEX_CHAR(c) == c \in 48..57
COMMON_PUNCT_SPACE_REGEX_CHAR(c) ==
    \/ IsJsSpace(c)
    \/ c \in 33..47 \/ c \in 58..64 \/ c \in 91..96 \/ c \in 123..126

\* regex.test(str) of a one-character class: some code unit of str matches
TestBengali(s) == \E i \in 1..Len(s) : BENGALI_REGEX_CHAR(s[i])
TestArabic(s) == \E i \in 1..Len(s) : ARABIC_REGEX_CHAR(s[i])
TestLatin(s) == \E i \in 1..Len(s) : LATIN_REGEX_CHAR(s[i])

\* mutant: the Bengali digits (U+09E6..U+09EF) classified as digits
detectCharScriptBengaliDigits(c) ==
    IF c \in 2534..2543 THEN "digit"
    ELSE IF BENGALI_REGEX_CHAR(c) THEN "bengali"
    ELSE IF ARABIC_REGEX_CHAR(c) THEN "arabic"
    ELSE IF LATIN_REGEX_CHAR(c) THEN "latin"
    ELSE IF DIGIT_REGEX_CHAR(c) THEN "digit"
    ELSE IF COMMON_PUNCT_SPACE_REGEX_CHAR(c) THEN "punct_space"
    ELSE "other"

detectCharScript(c) ==
    IF BENGALI_REGEX_CHAR(c) THEN "bengali"
    ELSE IF ARABIC_REGEX_CHAR(c) THEN "arabic"
    ELSE IF LATIN_REGEX_CHAR(c) THEN "latin"
    ELSE IF DIGIT_REGEX_CHAR(c) THEN "digit"
    ELSE IF COMMON_PUNCT_SPACE_REGEX_CHAR(c) THEN "punct_space"
    ELSE "other"

Language == {"en", "bn", "ar", "unknown"}
TargetApplications == {"word", "gdocs"}

----------------------------------------------------------------------------
(* originalText.split(/\\n|\n/g): the pieces between the markers, a marker *)
(* being a backslash followed by n (92 110) or a line feed (10).           *)

RECURSIVE SplitFrom(_, _, _, _)
SplitFrom(s, i, cur, acc) ==
    IF i > Len(s) THEN Append(acc, cur)
    ELSE IF s[i] = 92 /\ i < Len(s) /\ s[i + 1] = 110
         THEN SplitFrom(s, i + 2, <<>>, Append(acc, cur))
    ELSE IF s[i] = 10
         THEN SplitFrom(s, i + 1, <<>>, Append(acc, cur))
    ELSE SplitFrom(s, i + 1, Append(cur, s[i]), acc)

SplitLines(originalText) == SplitFrom(originalText, 1, <<>>, <<>>)

----------------------------------------------------------------------------
(* Script segmentation of one line (createTextRunsFromSpans, 213-254).     *)

\* mutant: the declared language ignored, a neutral first character is latin
FirstCharScriptAlwaysLatin(lineText, blockLanguageFromAI) ==
    LET firstCharScript == detectCharScript(lineText[1])
    IN  IF firstCharScript \in {"punct_space", "other", "digit"}
        THEN "latin"
        ELSE firstCharScript

FirstCharScript(lineText, blockLanguageFromAI) ==
    LET firstCharScript == detectCharScript(lineText[1])
    IN  IF firstCharScript \in {"punct_space", "other", "digit"}
        THEN IF blockLanguageFromAI = "bn"
                /\ ~(TestLatin(lineText) \/ TestArabic(lineText))
             THEN "bengali"
             ELSE IF blockLanguageFromAI = "ar"
                     /\ ~(TestLatin(lineText) \/ TestBengali(lineText))
             THEN "arabic"
             ELSE "latin"
        ELSE firstCharScript

\* mutant: no absorption, a digit or punctuation mark opens its own segment
JoinsCurrentNoAbsorb(charScript, currentSegmentScript) ==
    charScript = currentSegmentScript

\* mutant: punctuation and spaces are absorbed, digits are not
JoinsCurrentDigitsSplit(charScript, currentSegmentScript) ==
    LET effectiveJoinScript ==
            IF charScript = "punct_space"
            THEN currentSegmentScript
            ELSE charScript
    IN  effectiveJoinScript = currentSegmentScript

\* whether a character of class charScript joins the current segment
JoinsCurrent(charScript, currentSegmentScript) ==
    LET effectiveJoinScript ==
            IF charScript = "punct_space" \/ charScript = "digit"
            THEN currentSegmentScript
            ELSE charScript
    IN  effectiveJoinScript = currentSegmentScript

\* mutant: the closed segment pushed without the emptiness test
PushSegmentAlways(segments, currentSegmentText, currentSegmentScript) ==
    Append(segments, [text |-> currentSegmentText, script |-> currentSegmentScript])

\* the segment pushed when a segment closes: nothing when its text is empty
PushSegment(segments, currentSegmentText, currentSegmentScript) ==
    IF Len(currentSegmentText) > 0
    THEN Append(segments, [text |-> currentSegmentText, script |-> currentSegmentScript])
    ELSE segments

RECURSIVE SegmentLoop(_, _, _, _, _)
SegmentLoop(lineText, i, segments, currentSegmentText, currentSegmentScript) ==
    IF i > Len(lineText)
    THEN PushSegment(segments, currentSegmentText, currentSegmentScript)
    ELSE LET char == lineText[i]
             charScript == detectCharScript(char)
         IN  IF JoinsCurrent(charScript, currentSegmentScript)
             THEN SegmentLoop(lineText, i + 1, segments,
                              Append(currentSegmentText, char), currentSegmentScript)
             ELSE SegmentLoop(lineText, i + 1,
                              PushSegment(segments, currentSegmentText, currentSegmentScript),
                              <<char>>, charScript)

SegmentLine(lineText, blockLanguageFromAI) ==
    IF Len(lineText) > 0
    THEN SegmentLoop(lineText, 1, <<>>, <<>>,
                     FirstCharScript(lineText, blockLanguageFromAI))
    ELSE <<>>

----------------------------------------------------------------------------
(* Unit and token parsing.                                                 *)

IsDigits(s) == Len(s) > 0 /\ \A i \in 1..Len(s) : DIGIT_REGEX_CHAR(s[i])

\* parseInt(digits, 10) of a non-empty string of ASCII digits
RECURSIVE ParseInt10(_)
ParseInt10(digits) ==
    IF Len(digits) = 0 THEN 0
    ELSE 10 * ParseInt10(SubSeq(digits, 1, Len(digits) - 1))
         + (digits[Len(digits)] - 48)

\* a JavaScript string is falsy when it is absent or empty
Falsy(o) == ~IsSome(o) \/ Len(Val(o)) = 0

\* ptString.match(/^pt(\d+)$/) succeeds
MatchesPt(s) ==
    Len(s) >= 3 /\ s[1] = 112 /\ s[2] = 116 /\ IsDigits(SubSeq(s, 3, Len(s)))

\* mutant: 11 returned on a mismatch whatever default the caller supplied
parsePtStringToNumberFixedDefault(ptString, defaultSize) ==
    IF Falsy(ptString) THEN defaultSize
    ELSE IF MatchesPt(Val(ptString))
         THEN ParseInt10(SubSeq(Val(ptString), 3, Len(Val(ptString))))
         ELSE 11

parsePtStringToNumber(ptString, defaultSize) ==
    IF Falsy(ptString) THEN defaultSize
    ELSE IF MatchesPt(Val(ptString))
         THEN ParseInt10(SubSeq(Val(ptString), 3, Len(Val(ptString))))
         ELSE defaultSize

RECURSIVE Pow10(_)
Pow10(k) == IF k = 0 THEN 1 ELSE 10 * Pow10(k - 1)

\* position of the first "." (46) of s, 0 when there is none
DotAt(s) ==
    IF \E i \in 1..Len(s) : s[i] = 46
    THEN CHOOSE i \in 1..Len(s) : s[i] = 46 /\ \A j \in 1..(i - 1) : s[j] # 46
    ELSE 0

\* valueStr.match(/^(\d+(\.\d+)?)pt$/) succeeds
MatchesUnitPt(s) ==
    /\ Len(s) >= 3
    /\ s[Len(s) - 1] = 112 /\ s[Len(s)] = 116
    /\ LET num == SubSeq(s, 1, Len(s) - 2)
           d == DotAt(num)
       IN  IF d = 0 THEN IsDigits(num)
           ELSE IsDigits(SubSeq(num, 1, d - 1))
                /\ IsDigits(SubSeq(num, d + 1, Len(num)))

\* Math.round(parseFloat(num) * 20) of a matched number, in exact arithmetic
\* (Math.round rounds a half up)
RoundTimes20(num) ==
    LET d == DotAt(num)
        int == IF d = 0 THEN num ELSE SubSeq(num, 1, d - 1)
        frac == IF d = 0 THEN <<>> ELSE SubSeq(num, d + 1, Len(num))
        scale == Pow10(Len(frac))
        scaled == ParseInt10(int) * scale + ParseInt10(frac)
    IN  (2 * 20 * scaled + scale) \div (2 * scale)

\* mutant: an unparsable token gives 0 whatever the default
parseUnitValueToTwipsZeroDefault(valueStr, defaultTwipsIfUnparsable) ==
    IF Falsy(valueStr) THEN defaultTwipsIfUnparsable
    ELSE IF Val(valueStr) = <<48>> \/ Val(valueStr) = <<48, 112, 116>> THEN 0
    ELSE IF MatchesUnitPt(Val(valueStr))
         THEN RoundTimes20(SubSeq(Val(valueStr), 1, Len(Val(valueStr)) - 2))
         ELSE 0

parseUnitValueToTwips(valueStr, defaultTwipsIfUnparsable) ==
    IF Falsy(valueStr) THEN defaultTwipsIfUnparsable
    ELSE IF Val(valueStr) = <<48>> \/ Val(valueStr) = <<48, 112, 116>> THEN 0
    ELSE IF MatchesUnitPt(Val(valueStr))
         THEN RoundTimes20(SubSeq(Val(valueStr), 1, Len(Val(valueStr)) - 2))
         ELSE defaultTwipsIfUnparsable

\* mutant: the point size returned, not doubled to half-points
mapFontSizeToDocxPoints(category, blockType) ==
    parsePtStringToNumber(category, 11)

\* blockType is "undefined" when the caller passes none
mapFontSizeToDocx(category, blockType) ==
    LET parsed == parsePtStringToNumber(category, 11)
        ptSize ==
            IF ~Falsy(category) /\ ~MatchesPt(Val(category)) /\ blockType # "undefined"
            THEN CASE blockType = "heading1" -> 22
                   [] blockType = "heading2" -> 16
                   [] blockType = "heading3" -> 13
                   [] OTHER -> 11
            ELSE parsed
    IN  ptSize * 2

mapAlignmentToDocx(alignment) ==
    CASE alignment = "left" -> "LEFT"
      [] alignment = "center" -> "CENTER"
      [] alignment = "right" -> "RIGHT"
      [] alignment = "justify" -> "BOTH"
      [] OTHER -> "LEFT"

getHeadingLevelFromBlockType(blockType) ==
    CASE blockType = "heading1" -> "HEADING_1"
      [] blockType = "heading2" -> "HEADING_2"
      [] blockType = "heading3" -> "HEADING_3"
      [] blockType = "heading4" -> "HEADING_4"
      [] blockType = "heading5" -> "HEADING_5"
      [] blockType = "heading6" -> "HEADING_6"
      [] OTHER -> "undefined"

----------------------------------------------------------------------------
(* Font resolution.                                                        *)

commonArabicFonts ==
    {"Noto Naskh Arabic", "Noto Sans Arabic", "Cairo", "Lateef",
     "Noto Kufi Arabic", "Traditional Arabic", "Arial Unicode MS"}

\* mutant: a latin segment of a block declared bn gets the Bengali font
mapFontFamilyToDocxByLanguage(spanTextContentForRefOnly, detectedSegmentScript, spanFontFamilyKeyFromAI, spanFontWeight, blockFontFamilySuggestionFromAI, blockLanguageFromAI, targetApplicationArg) ==
    IF targetApplicationArg = "word"
    THEN CASE detectedSegmentScript = "bengali" -> "SutonnyOMJ"
           [] detectedSegmentScript \in {"latin", "digit", "punct_space"} ->
                IF blockLanguageFromAI = "bn" THEN "SutonnyOMJ" ELSE "Times New Roman"
           [] detectedSegmentScript = "arabic" ->
                IF spanFontFamilyKeyFromAI \in commonArabicFonts THEN spanFontFamilyKeyFromAI
                ELSE IF spanFontFamilyKeyFromAI = "arabic-modern-sans" THEN "Arial"
                ELSE "Traditional Arabic"
           [] OTHER -> "Calibri"
    ELSE CASE detectedSegmentScript = "bengali" -> "Tiro Bangla"
           [] detectedSegmentScript \in {"latin", "digit", "punct_space"} ->
                IF blockLanguageFromAI = "bn" THEN "Tiro Bangla" ELSE "Open Sans"
           [] detectedSegmentScript = "arabic" ->
                IF spanFontFamilyKeyFromAI \in commonArabicFonts THEN spanFontFamilyKeyFromAI
                ELSE "Noto Naskh Arabic"
           [] OTHER -> "Open Sans"

\* mutant: a curated font name is used for a segment of any script
mapFontFamilyToDocxHintFirst(spanTextContentForRefOnly, detectedSegmentScript, spanFontFamilyKeyFromAI, spanFontWeight, blockFontFamilySuggestionFromAI, blockLanguageFromAI, targetApplicationArg) ==
    IF spanFontFamilyKeyFromAI \in commonArabicFonts THEN spanFontFamilyKeyFromAI
    ELSE IF targetApplicationArg = "word"
    THEN CASE detectedSegmentScript = "bengali" -> "SutonnyOMJ"
           [] detectedSegmentScript \in {"latin", "digit", "punct_space"} -> "Times New Roman"
           [] detectedSegmentScript = "arabic" ->
                IF spanFontFamilyKeyFromAI = "arabic-modern-sans" THEN "Arial"
                ELSE "Traditional Arabic"
           [] OTHER -> "Calibri"
    ELSE CASE detectedSegmentScript = "bengali" -> "Tiro Bangla"
           [] detectedSegmentScript \in {"latin", "digit", "punct_space"} -> "Open Sans"
           [] detectedSegmentScript = "arabic" -> "Noto Naskh Arabic"
           [] OTHER -> "Open Sans"

\* mutant: the word profile gives the class other the latin default
mapFontFamilyToDocxOtherAsLatin(spanTextContentForRefOnly, detectedSegmentScript, spanFontFamilyKeyFromAI, spanFontWeight, blockFontFamilySuggestionFromAI, blockLanguageFromAI, targetApplicationArg) ==
    IF targetApplicationArg = "word"
    THEN CASE detectedSegmentScript = "bengali" -> "SutonnyOMJ"
           [] detectedSegmentScript = "arabic" ->
                IF spanFontFamilyKeyFromAI \in commonArabicFonts THEN spanFontFamilyKeyFromAI
                ELSE IF spanFontFamilyKeyFromAI = "arabic-modern-sans" THEN "Arial"
                ELSE "Traditional Arabic"
           [] OTHER -> "Times New Roman"
    ELSE CASE detectedSegmentScript = "bengali" -> "Tiro Bangla"
           [] detectedSegmentScript = "arabic" ->
                IF spanFontFamilyKeyFromAI \in commonArabicFonts THEN spanFontFamilyKeyFromAI
                ELSE "Noto Naskh Arabic"
           [] OTHER -> "Open Sans"

\* spanFontFamilyKeyFromAI is "undefined" when the span has no fontFamily
mapFontFamilyToDocx(spanTextContentForRefOnly, detectedSegmentScript, spanFontFamilyKeyFromAI, spanFontWeight, blockFontFamilySuggestionFromAI, blockLanguageFromAI, targetApplicationArg) ==
    IF targetApplicationArg = "word"
    THEN CASE detectedSegmentScript = "bengali" -> "SutonnyOMJ"
           [] detectedSegmentScript \in {"latin", "digit", "punct_space"} -> "Times New Roman"
           [] detectedSegmentScript = "arabic" ->
                IF spanFontFamilyKeyFromAI \in commonArabicFonts THEN spanFontFamilyKeyFromAI
                ELSE IF spanFontFamilyKeyFromAI \in {"arabic-naskh", "arabic"} THEN "Traditional Arabic"
                ELSE IF spanFontFamilyKeyFromAI = "arabic-kufi" THEN "Traditional Arabic"
                ELSE IF spanFontFamilyKeyFromAI = "arabic-modern-sans" THEN "Arial"
                ELSE "Traditional Arabic"
           [] OTHER -> "Calibri"
    ELSE CASE detectedSegmentScript = "bengali" -> "Tiro Bangla"
           [] detectedSegmentScript \in {"latin", "digit", "punct_space"} -> "Open Sans"
           [] detectedSegmentScript = "arabic" ->
                IF spanFontFamilyKeyFromAI \in commonArabicFonts THEN spanFontFamilyKeyFromAI
                ELSE "Noto Naskh Arabic"
           [] OTHER -> "Open Sans"

----------------------------------------------------------------------------
(* Text runs (createTextRunsFromSpans).                                    *)
(* A span is [text, isBold, isItalic, fontFamily, fontWeight, color,       *)
(* textDecoration]; isBold, isItalic, fontWeight and color are optional,   *)
(* fontFamily and textDecoration are "undefined" when absent.              *)

\* the options a docx TextRun is constructed with
TextRun(text, bold, italics, font, size, color, underline, strike, break) ==
    [text |-> text, bold |-> bold, italics |-> italics, font |-> font,
     size |-> size, color |-> color, underline |-> underline,
     strike |-> strike, break |-> break]

\* new TextRun({ break: 1 })
BreakRun == TextRun(None, None, None, None, None, None, FALSE, FALSE, Some(1))
\* new TextRun("")
EmptyRun == TextRun(Some(<<>>), None, None, None, None, None, FALSE, FALSE, None)
\* new TextRun({ text: "", size })
EmptySizedRun(size) ==
    TextRun(Some(<<>>), None, None, None, Some(size), None, FALSE, FALSE, None)

mapTextDecorationToDocx(decoration) ==
    IF decoration = "underline" THEN [underline |-> TRUE, strike |-> FALSE]
    ELSE IF decoration = "line-through" THEN [underline |-> FALSE, strike |-> TRUE]
    ELSE [underline |-> FALSE, strike |-> FALSE]

IsHexDigit(c) == c \in 48..57 \/ c \in 65..70 \/ c \in 97..102

\* /^#[0-9A-Fa-f]{3,8}$/.test(color)
IsHexColor(s, maxDigits) ==
    /\ Len(s) \in 4..(maxDigits + 1)
    /\ s[1] = 35
    /\ \A i \in 2..Len(s) : IsHexDigit(s[i])

\* the strings 'default' and 'inherit'
StrDefault == <<100, 101, 102, 97, 117, 108, 116>>
StrInherit == <<105, 110, 104, 101, 114, 105, 116>>

\* s.replace("#", ""): the first "#" (35) removed
RemoveFirstHash(s) ==
    IF \E i \in 1..Len(s) : s[i] = 35
    THEN LET k == CHOOSE i \in 1..Len(s) : s[i] = 35 /\ \A j \in 1..(i - 1) : s[j] # 35
         IN  SubSeq(s, 1, k - 1) \o SubSeq(s, k + 1, Len(s))
    ELSE s

SpanColor(span) ==
    IF ~Falsy(span.color)
       /\ Val(span.color) # StrDefault /\ Val(span.color) # StrInherit
       /\ IsHexColor(Val(span.color), 8)
    THEN Some(RemoveFirstHash(Val(span.color)))
    ELSE None

\* mutant: the isBold flag decides whenever it is present
SpanBoldFlagFirst(span) ==
    IF IsSome(span.isBold) THEN Val(span.isBold)
    ELSE IsSome(span.fontWeight) /\ Val(span.fontWeight) >= 600

\* span.fontWeight ? span.fontWeight >= 600 : (span.isBold || false)
SpanBold(span) ==
    IF IsSome(span.fontWeight) /\ Val(span.fontWeight) # 0
    THEN Val(span.fontWeight) >= 600
    ELSE IsSome(span.isBold) /\ Val(span.isBold)

\* the TextRun of one segment of a span
SegmentRun(span, segment, defaultFontSizeCategoryForBlock, blockFontFamilySuggestionFromAI, blockLanguageFromAI, targetApplicationArg, defaultBlockType) ==
    LET decorationProps == mapTextDecorationToDocx(span.textDecoration)
    IN  TextRun(Some(segment.text),
                Some(SpanBold(span)),
                span.isItalic,
                Some(mapFontFamilyToDocx(segment.text, segment.script, span.fontFamily,
                                         span.fontWeight, blockFontFamilySuggestionFromAI,
                                         blockLanguageFromAI, targetApplicationArg)),
                Some(mapFontSizeToDocx(defaultFontSizeCategoryForBlock, defaultBlockType)),
                SpanColor(span),
                decorationProps.underline,
                decorationProps.strike,
                None)

\* mutant: an empty line adds nothing, not even its break
LineRunsNoBreakOnEmpty(span, textLines, lineIndex, defaultFontSizeCategoryForBlock, blockFontFamilySuggestionFromAI, blockLanguageFromAI, targetApplicationArg, defaultBlockType) ==
    LET lineText == textLines[lineIndex]
        notLast == lineIndex < Len(textLines)
        segments == SegmentLine(lineText, blockLanguageFromAI)
    IN  IF lineText = <<>> /\ Len(textLines) > 1
        THEN <<>>
        ELSE [k \in 1..Len(segments) |->
                 SegmentRun(span, segments[k], defaultFontSizeCategoryForBlock,
                            blockFontFamilySuggestionFromAI, blockLanguageFromAI,
                            targetApplicationArg, defaultBlockType)]
             \o (IF notLast THEN <<BreakRun>> ELSE <<>>)

\* the runs one line of a span adds to allRuns (the body of textLines.forEach)
LineRuns(span, textLines, lineIndex, defaultFontSizeCategoryForBlock, blockFontFamilySuggestionFromAI, blockLanguageFromAI, targetApplicationArg, defaultBlockType) ==
    LET lineText == textLines[lineIndex]
        notLast == lineIndex < Len(textLines)
        segments == SegmentLine(lineText, blockLanguageFromAI)
    IN  IF lineText = <<>> /\ Len(textLines) > 1
        THEN IF notLast THEN <<BreakRun>> ELSE <<>>
        ELSE [k \in 1..Len(segments) |->
                 SegmentRun(span, segments[k], defaultFontSizeCategoryForBlock,
                            blockFontFamilySuggestionFromAI, blockLanguageFromAI,
                            targetApplicationArg, defaultBlockType)]
             \o (IF notLast THEN <<BreakRun>> ELSE <<>>)

RECURSIVE SpanRunsFrom(_, _, _, _, _, _, _, _)
SpanRunsFrom(span, textLines, lineIndex, defaultFontSizeCategoryForBlock, blockFontFamilySuggestionFromAI, blockLanguageFromAI, targetApplicationArg, defaultBlockType) ==
    IF lineIndex > Len(textLines) THEN <<>>
    ELSE LineRuns(span, textLines, lineIndex, defaultFontSizeCategoryForBlock,
                  blockFontFamilySuggestionFromAI, blockLanguageFromAI,
                  targetApplicationArg, defaultBlockType)
         \o SpanRunsFrom(span, textLines, lineIndex + 1, defaultFontSizeCategoryForBlock,
                         blockFontFamilySuggestionFromAI, blockLanguageFromAI,
                         targetApplicationArg, defaultBlockType)

RECURSIVE createTextRunsFromSpans(_, _, _, _, _, _)
createTextRunsFromSpans(spans, defaultFontSizeCategoryForBlock, blockFontFamilySuggestionFromAI, blockLanguageFromAI, targetApplicationArg, defaultBlockType) ==
    IF Len(spans) = 0 THEN <<>>
    ELSE SpanRunsFrom(Head(spans), SplitLines(Head(spans).text), 1,
                      defaultFontSizeCategoryForBlock, blockFontFamilySuggestionFromAI,
                      blockLanguageFromAI, targetApplicationArg, defaultBlockType)
         \o createTextRunsFromSpans(Tail(spans), defaultFontSizeCategoryForBlock,
                                    blockFontFamilySuggestionFromAI, blockLanguageFromAI,
                                    targetApplicationArg, defaultBlockType)


----------------------------------------------------------------------------
(* Line spacing.                                                           *)

\* Math.round(num / den) for num >= 0, den > 0 (a half rounds up)
RoundDiv(num, den) == (2 * num + den) \div (2 * den)

\* the digits of s from position i on
RECURSIVE DigitsFrom(_, _)
DigitsFrom(s, i) ==
    IF i <= Len(s) /\ DIGIT_REGEX_CHAR(s[i]) THEN <<s[i]>> \o DigitsFrom(s, i + 1)
    ELSE <<>>

RECURSIVE SkipSpaces(_, _)
SkipSpaces(s, i) == IF i <= Len(s) /\ IsJsSpace(s[i]) THEN SkipSpaces(s, i + 1) ELSE i

\* parseFloat(s): leading white space skipped, then the longest prefix of
\* the form [+-] digits [. digits] or [+-] . digits; None stands for NaN and
\* Some([neg, mant, scale]) for the number (-1)^neg * mant / scale.  The
\* tokens of the model hold neither an exponent nor "Infinity".
ParseFloat(s) ==
    LET i0 == SkipSpaces(s, 1)
        signed == i0 <= Len(s) /\ s[i0] \in {43, 45}
        neg == signed /\ s[i0] = 45
        i1 == IF signed THEN i0 + 1 ELSE i0
        int == DigitsFrom(s, i1)
        i2 == i1 + Len(int)
        frac == IF i2 <= Len(s) /\ s[i2] = 46 THEN DigitsFrom(s, i2 + 1) ELSE <<>>
    IN  IF Len(int) = 0 /\ Len(frac) = 0 THEN None
        ELSE Some([neg |-> neg,
                   mant |-> ParseInt10(int) * Pow10(Len(frac)) + ParseInt10(frac),
                   scale |-> Pow10(Len(frac))])

\* the string "normal"
StrNormal == <<110, 111, 114, 109, 97, 108>>

\* Math.round(fontSizePt * 1.15 * 20)
AutoLineSpacing(fontSizePt) ==
    [lineRule |-> "auto", line |-> RoundDiv(fontSizePt * 115 * 20, 100)]

getLineSpacing(lineHeightStr, fontSizePt) ==
    IF Falsy(lineHeightStr) \/ Val(lineHeightStr) = StrNormal
    THEN AutoLineSpacing(fontSizePt)
    ELSE LET lhValue == ParseFloat(Val(lineHeightStr))
         IN  IF IsSome(lhValue) /\ ~Val(lhValue).neg /\ Val(lhValue).mant > 0
             THEN [lineRule |-> "exact",
                   line |-> RoundDiv(fontSizePt * Val(lhValue).mant * 20, Val(lhValue).scale)]
             ELSE AutoLineSpacing(fontSizePt)

----------------------------------------------------------------------------
(* createDocumentContent.                                                  *)
(* A paragraph-like block is [id, blockType, language, alignment,          *)
(* fontSizeCategory, fontFamilySuggestion, lineHeight, spaceAfter, spans]; *)
(* a table block is [id, blockType, language, rows, caption, tableWidth,   *)
(* cellPadding, borderColor, borderWidth] with rows of [id, cells] and     *)
(* cells of [id, content, colSpan, rowSpan, alignment, backgroundColor,    *)
(* borderColor, borderWidth, fontSizeCategory, fontFamilySuggestion,       *)
(* language].                                                              *)

\* the options a docx Paragraph is constructed with
Paragraph(children, alignment, heading, spacing, style) ==
    [kind |-> "paragraph", children |-> children, alignment |-> alignment,
     heading |-> heading, spacing |-> spacing, style |-> style]

\* a || b || c on optional strings: the first that is present and non-empty
FirstTruthy(a, b, c) == IF ~Falsy(a) THEN Val(a) ELSE IF ~Falsy(b) THEN Val(b) ELSE c

\* "1pt" and "#000000"
Str1pt == <<49, 112, 116>>
StrBlack == <<35, 48, 48, 48, 48, 48, 48>>

\* mutant: the table's border width consulted before the cell's
BorderSizeTableFirst(cell, tableBlock) ==
    [num |-> parseUnitValueToTwips(
                 Some(FirstTruthy(tableBlock.borderWidth, cell.borderWidth, Str1pt)), 20),
     den |-> 20]

\* parseUnitValueToTwips(cell.borderWidth || tableBlock.borderWidth || "1pt", 20) / 20,
\* kept as the fraction num / den
BorderSize(cell, tableBlock) ==
    [num |-> parseUnitValueToTwips(
                 Some(FirstTruthy(cell.borderWidth, tableBlock.borderWidth, Str1pt)), 20),
     den |-> 20]

\* mutant: the table's border colour consulted before the cell's
BorderColorTableFirst(cell, tableBlock) ==
    RemoveFirstHash(FirstTruthy(tableBlock.borderColor, cell.borderColor, StrBlack))

BorderColor(cell, tableBlock) ==
    RemoveFirstHash(FirstTruthy(cell.borderColor, tableBlock.borderColor, StrBlack))

\* mutant: every cell with a rowSpan marked, also rowSpan 1
VerticalMergeFromOne(cell) ==
    IF IsSome(cell.rowSpan) /\ Val(cell.rowSpan) >= 1 THEN "RESTART" ELSE "undefined"

\* cell.rowSpan && cell.rowSpan > 1 ? VerticalMergeType.RESTART : undefined
VerticalMerge(cell) ==
    IF IsSome(cell.rowSpan) /\ Val(cell.rowSpan) > 1 THEN "RESTART" ELSE "undefined"

CellShading(cell) ==
    IF ~Falsy(cell.backgroundColor) /\ IsHexColor(Val(cell.backgroundColor), 6)
    THEN Some([type |-> "CLEAR", fill |-> RemoveFirstHash(Val(cell.backgroundColor)),
               color |-> "auto"])
    ELSE None

CellMargins(tableBlock) ==
    IF ~Falsy(tableBlock.cellPadding)
    THEN LET m == parseUnitValueToTwips(tableBlock.cellPadding, 0)
         IN  [top |-> m, bottom |-> m, left |-> m, right |-> m]
    ELSE [top |-> 80, bottom |-> 80, left |-> 80, right |-> 80]

DocxTableCell(cell, tableBlock, targetApplicationArg) ==
    LET cellEffectiveLanguage ==
            IF cell.language # "undefined" THEN cell.language ELSE tableBlock.language
        cellContentRuns ==
            createTextRunsFromSpans(cell.content, cell.fontSizeCategory,
                                    cell.fontFamilySuggestion, cellEffectiveLanguage,
                                    targetApplicationArg, "undefined")
        children ==
            IF Len(cellContentRuns) > 0 THEN cellContentRuns
            ELSE <<EmptySizedRun(mapFontSizeToDocx(cell.fontSizeCategory, "undefined"))>>
        edge == [style |-> "SINGLE", size |-> BorderSize(cell, tableBlock),
                 color |-> BorderColor(cell, tableBlock)]
    IN  [children |-> <<Paragraph(children, mapAlignmentToDocx(cell.alignment),
                                  "undefined", None, "undefined")>>,
         columnSpan |-> cell.colSpan,
         rowSpan |-> cell.rowSpan,
         verticalMerge |-> VerticalMerge(cell),
         shading |-> CellShading(cell),
         margins |-> CellMargins(tableBlock),
         borders |-> [top |-> edge, bottom |-> edge, left |-> edge, right |-> edge]]

\* '%' is code unit 37
TableWidthPercent(tableBlock) ==
    IF IsSome(tableBlock.tableWidth) /\ Len(Val(tableBlock.tableWidth)) > 0
       /\ Val(tableBlock.tableWidth)[Len(Val(tableBlock.tableWidth))] = 37
    THEN ParseFloat(Val(tableBlock.tableWidth))
    ELSE Some([neg |-> FALSE, mant |-> 100, scale |-> 1])

\* "pt10"
TokPt10 == <<112, 116, 49, 48>>

\* mutant: the caption paragraph placed after the table
TableBlockContentCaptionLast(tableBlock, targetApplicationArg) ==
    LET docxRows ==
            [r \in 1..Len(tableBlock.rows) |->
                [children |->
                    [c \in 1..Len(tableBlock.rows[r].cells) |->
                        DocxTableCell(tableBlock.rows[r].cells[c], tableBlock,
                                      targetApplicationArg)]]]
        captionParagraphs ==
            IF IsSome(tableBlock.caption) /\ Len(Val(tableBlock.caption)) > 0
            THEN <<Paragraph(createTextRunsFromSpans(Val(tableBlock.caption), Some(TokPt10),
                                                     "sans-serif", tableBlock.language,
                                                     targetApplicationArg, "undefined"),
                             "CENTER", "undefined", None, "Caption")>>
            ELSE <<>>
        docxTable ==
            [kind |-> "table", rows |-> docxRows,
             width |-> [size |-> TableWidthPercent(tableBlock), type |-> "PERCENTAGE"]]
    IN  <<docxTable>> \o captionParagraphs

TableBlockContent(tableBlock, targetApplicationArg) ==
    LET docxRows ==
            [r \in 1..Len(tableBlock.rows) |->
                [children |->
                    [c \in 1..Len(tableBlock.rows[r].cells) |->
                        DocxTableCell(tableBlock.rows[r].cells[c], tableBlock,
                                      targetApplicationArg)]]]
        captionParagraphs ==
            IF IsSome(tableBlock.caption) /\ Len(Val(tableBlock.caption)) > 0
            THEN <<Paragraph(createTextRunsFromSpans(Val(tableBlock.caption), Some(TokPt10),
                                                     "sans-serif", tableBlock.language,
                                                     targetApplicationArg, "undefined"),
                             "CENTER", "undefined", None, "Caption")>>
            ELSE <<>>
        docxTable ==
            [kind |-> "table", rows |-> docxRows,
             width |-> [size |-> TableWidthPercent(tableBlock), type |-> "PERCENTAGE"]]
    IN  captionParagraphs \o <<docxTable>>

\* paraBlock.blockType.startsWith('heading')
IsHeadingType(blockType) ==
    blockType \in {"heading1", "heading2", "heading3", "heading4", "heading5", "heading6"}

ParagraphBlockContent(paraBlock, targetApplicationArg) ==
    LET currentFontSizePt == parsePtStringToNumber(paraBlock.fontSizeCategory, 11)
        paragraphLineSpacing == getLineSpacing(paraBlock.lineHeight, currentFontSizePt)
        defaultSpaceAfterTwips == IF IsHeadingType(paraBlock.blockType) THEN 200 ELSE 100
        spaceAfterTwips == parseUnitValueToTwips(paraBlock.spaceAfter, defaultSpaceAfterTwips)
        docxSpans ==
            createTextRunsFromSpans(paraBlock.spans, paraBlock.fontSizeCategory,
                                    paraBlock.fontFamilySuggestion, paraBlock.language,
                                    targetApplicationArg, paraBlock.blockType)
        headingLevel == getHeadingLevelFromBlockType(paraBlock.blockType)
    IN  <<Paragraph(IF Len(docxSpans) > 0 THEN docxSpans ELSE <<EmptyRun>>,
                    mapAlignmentToDocx(paraBlock.alignment),
                    headingLevel,
                    Some([after |-> spaceAfterTwips,
                          line |-> paragraphLineSpacing.line,
                          lineRule |-> paragraphLineSpacing.lineRule]),
                    IF headingLevel # "undefined" THEN "undefined" ELSE "NormalParcelStyle")>>

RECURSIVE createDocumentContent(_, _)
createDocumentContent(blockSeq, targetApplicationArg) ==
    IF Len(blockSeq) = 0 THEN <<>>
    ELSE (IF Head(blockSeq).blockType = "table"
          THEN TableBlockContent(Head(blockSeq), targetApplicationArg)
          ELSE ParagraphBlockContent(Head(blockSeq), targetApplicationArg))
         \o createDocumentContent(Tail(blockSeq), targetApplicationArg)

----------------------------------------------------------------------------
(* One createTextRunsFromSpans call, with what it computed on the way.     *)

RunsOfCall(c) ==
    createTextRunsFromSpans(c.spans, c.defaultFontSizeCategoryForBlock,
                            c.blockFontFamilySuggestionFromAI, c.blockLanguageFromAI,
                            c.targetApplication, c.defaultBlockType)

RunsResult(c) ==
    [textLines |-> [s \in 1..Len(c.spans) |-> SplitLines(c.spans[s].text)],
     segments |-> [s \in 1..Len(c.spans) |->
                     LET textLines == SplitLines(c.spans[s].text)
                     IN  [l \in 1..Len(textLines) |->
                            SegmentLine(textLines[l], c.blockLanguageFromAI)]],
     allRuns |-> RunsOfCall(c)]

\* code units the span texts are drawn from: one Bengali letter, one Arabic
\* letter, "n" (latin), "1" (digit), "\" (punctuation), the euro sign (other)
\* and the line feed; "\" followed by "n" is the escaped newline marker
TextAlphabet == {2453, 1593, 110, 49, 92, 8364, 10}

RECURSIVE SeqsUpTo(_, _)
SeqsUpTo(S, n) ==
    IF n = 0 THEN {<<>>}
    ELSE LET shorter == SeqsUpTo(S, n - 1)
         IN  shorter \cup {Append(t, c) : t \in {u \in shorter : Len(u) = n - 1}, c \in S}

\* "Price: 100Tk " followed by the Bengali digits 5 0 0
TextPrice == <<80, 114, 105, 99, 101, 58, 32, 49, 48, 48, 84, 107, 32, 2539, 2534, 2534>>
\* "Report"
TextReport == <<82, 101, 112, 111, 114, 116>>
\* "12: (3)"
TextNeutral == <<49, 50, 58, 32, 40, 51, 41>>

SpanTexts == SeqsUpTo(TextAlphabet, MaxLen) \cup {TextPrice, TextReport, TextNeutral}

PlainSpan(text) ==
    [text |-> text, isBold |-> None, isItalic |-> None, fontFamily |-> "undefined",
     fontWeight |-> None, color |-> None, textDecoration |-> "undefined"]

\* "pt12"
TokPt12 == <<112, 116, 49, 50>>

IdleRuns == runsCall = None /\ runsRet = None
IdlePt == ptCall = None /\ ptRet = None
IdleFont == fontCalls = None /\ fontRet = None
IdleDoc ==
    /\ blocks = <<>> /\ targetApplication = "gdocs" /\ docxObjects = None /\ pc = "idle"
    /\ packerError = None /\ rejected = None /\ savedFiles = <<>>
\* the App component before an image is uploaded
IdleChat ==
    /\ ai = FALSE /\ chatHistory = <<>> /\ aiChatError = None
    /\ isAIChatProcessing = FALSE
    /\ chatCalls = 0 /\ chatCall = None /\ chatReturn = None

IdleLoad ==
    /\ isLoading = FALSE /\ error = None /\ currentStage = <<"idle">> /\ progressPercent = 0

IdleExport == exportCall = None /\ exportLog = <<>> /\ timers = <<>>

IdleViewer ==
    /\ now = 0 /\ debounceTimers = <<>> /\ mounted = FALSE
    /\ isSelectAndCopyModeActive = FALSE
    /\ lastInput = <<>> /\ spanInputs = 0 /\ spanChanges = 0

IdleImage == progressIntervalRef = FALSE /\ imageCall = None /\ imageLog = <<>>

IdleRest == IdleViewer /\ IdleImage

IdleApp ==
    /\ formattedText = <<>> /\ spanEdit = None
    /\ IdleChat /\ IdleLoad /\ IdleExport /\ IdleRest

InitRuns ==
    /\ runsCall \in
         {Some([spans |-> <<PlainSpan(t)>>,
                defaultFontSizeCategoryForBlock |-> Some(TokPt12),
                blockFontFamilySuggestionFromAI |-> "default",
                blockLanguageFromAI |-> lang,
                targetApplication |-> "word",
                defaultBlockType |-> "paragraph"]) :
            t \in SpanTexts, lang \in Language}
    /\ runsRet = None
    /\ IdlePt /\ IdleFont /\ IdleDoc /\ IdleApp

CallCreateTextRuns ==
    /\ IsSome(runsCall) /\ runsRet = None
    /\ runsRet' = Some(RunsResult(Val(runsCall)))
    /\ UNCHANGED <<runsCall, ptCall, ptRet, fontCalls, fontRet,
                   blocks, targetApplication, docxObjects, pc,
                   packerError, rejected, savedFiles, appVars>>

NextRuns == CallCreateTextRuns

SpecRuns == InitRuns /\ [][NextRuns]_vars

----------------------------------------------------------------------------
(* Properties of the segmentation.                                         *)

RECURSIVE ConcatTexts(_)
ConcatTexts(segments) ==
    IF Len(segments) = 0 THEN <<>>
    ELSE Head(segments).text \o ConcatTexts(Tail(segments))

\* the (line, segments) pairs of the finished call
SegmentedLines ==
    IF IsSome(runsRet)
    THEN {<<Val(runsRet).textLines[s][l], Val(runsRet).segments[s][l]>> :
            s \in {1}, l \in 1..Len(Val(runsRet).textLines[1])}
    ELSE {}

\* C1: every line's segments are non-empty and concatenate, in order, to the
\* line exactly; the empty line has no segment.
C1_LosslessPartition ==
    \A p \in SegmentedLines :
        /\ \A k \in 1..Len(p[2]) : Len(p[2][k].text) > 0
        /\ ConcatTexts(p[2]) = p[1]
        /\ (p[1] = <<>> => p[2] = <<>>)

\* a span with an escaped newline marker whose second line has two segments,
\* and a line that starts with a character of class other
C1_Witness ==
    /\ IsSome(runsRet)
    /\ Len(Val(runsRet).textLines[1]) = 2
    /\ \E p \in SegmentedLines : Len(p[2]) = 2 /\ p[1][1] = 8364

\* C2: no two adjacent segments of a line have the same script, and no
\* segment is tagged digit or punct_space.
C2_RunMinimality ==
    \A p \in SegmentedLines :
        /\ \A k \in 1..(Len(p[2]) - 1) : p[2][k].script # p[2][k + 1].script
        /\ \A k \in 1..Len(p[2]) : p[2][k].script \notin {"digit", "punct_space"}

\* a line of three segments that holds a digit after its first character
C2_Witness ==
    \E p \in SegmentedLines :
        /\ Len(p[2]) = 3
        /\ \E i \in 2..Len(p[1]) : detectCharScript(p[1][i]) = "digit"

\* the finished call on "Price: 100Tk ৫০০" with declared language bn
PriceCallDone ==
    /\ IsSome(runsRet)
    /\ Val(runsCall).spans[1].text = TextPrice
    /\ Val(runsCall).blockLanguageFromAI = "bn"

\* C3 as stated: three runs, "Price: " latin, "100Tk " latin, then the
\* Bengali digits.
C3_ThreeRuns ==
    PriceCallDone =>
        Val(runsRet).segments[1][1] =
            <<[text |-> SubSeq(TextPrice, 1, 7), script |-> "latin"],
              [text |-> SubSeq(TextPrice, 8, 13), script |-> "latin"],
              [text |-> SubSeq(TextPrice, 14, 16), script |-> "bengali"]>>

\* C3 amended: exactly two runs, "Price: 100Tk " latin (digits and spaces
\* absorbed) and the Bengali digits as bengali.
C3_TwoRuns ==
    PriceCallDone =>
        Val(runsRet).segments[1][1] =
            <<[text |-> SubSeq(TextPrice, 1, 13), script |-> "latin"],
              [text |-> SubSeq(TextPrice, 14, 16), script |-> "bengali"]>>

C3_Witness == PriceCallDone /\ Len(Val(runsRet).allRuns) = 2

IsNeutralLine(line) ==
    /\ Len(line) > 0
    /\ \A i \in 1..Len(line) :
          detectCharScript(line[i]) \in {"digit", "punct_space"}

\* C4: a non-empty line of ASCII digits and neutral characters only, under
\* declared language bn, is one segment, classified bengali.
C4_NeutralLineIsBengali ==
    \A p \in SegmentedLines :
        (IsNeutralLine(p[1]) /\ Val(runsCall).blockLanguageFromAI = "bn") =>
            (Len(p[2]) = 1 /\ p[2][1].script = "bengali")

\* "12: (3)" under bn, segmented
C4_Witness ==
    /\ IsSome(runsRet)
    /\ Val(runsCall).blockLanguageFromAI = "bn"
    /\ Val(runsRet).textLines[1] = <<TextNeutral>>
    /\ Len(Val(runsRet).segments[1][1]) = 1

----------------------------------------------------------------------------
(* One parsePtStringToNumber call.                                         *)

\* code units the size tokens are drawn from: p t 0 1 7 x P
PtAlphabet == {112, 116, 48, 49, 55, 120, 80}
PtTokens == {None} \cup {Some(t) : t \in SeqsUpTo(PtAlphabet, MaxDigits + 2)}
PtDefaults == {11, 12, 0}

InitPt ==
    /\ ptCall \in {Some([ptString |-> tok, defaultSize |-> d]) :
                     tok \in PtTokens, d \in PtDefaults}
    /\ ptRet = None
    /\ IdleRuns /\ IdleFont /\ IdleDoc /\ IdleApp

CallParsePt ==
    /\ IsSome(ptCall) /\ ptRet = None
    /\ ptRet' = Some(parsePtStringToNumber(Val(ptCall).ptString, Val(ptCall).defaultSize))
    /\ UNCHANGED <<ptCall, runsCall, runsRet, fontCalls, fontRet,
                   blocks, targetApplication, docxObjects, pc,
                   packerError, rejected, savedFiles, appVars>>

NextPt == CallParsePt

SpecPt == InitPt /\ [][NextPt]_vars

\* the number a string of decimal digits denotes, most significant digit first
RECURSIVE DecimalValue(_)
DecimalValue(digits) ==
    IF Len(digits) = 0 THEN 0
    ELSE (Head(digits) - 48) * Pow10(Len(digits) - 1) + DecimalValue(Tail(digits))

\* the token is "pt" followed by one or more of the digits 0..9
IsPtForm(tok) ==
    /\ IsSome(tok)
    /\ Len(Val(tok)) > 2
    /\ SubSeq(Val(tok), 1, 2) = <<112, 116>>
    /\ \A i \in 3..Len(Val(tok)) : Val(tok)[i] \in 48..57

\* C5: parsePtStringToNumber returns N for the token "pt<N>" and the
\* supplied default for every other string and for an absent token.
C5_ParsePt ==
    IsSome(ptRet) =>
        LET tok == Val(ptCall).ptString
        IN  IF IsPtForm(tok)
            THEN Val(ptRet) = DecimalValue(SubSeq(Val(tok), 3, Len(Val(tok))))
            ELSE Val(ptRet) = Val(ptCall).defaultSize

\* "pt17" parsed to 17, and "pt1x" resolved to the supplied default 12
C5_Witness ==
    /\ IsSome(ptRet)
    /\ \/ Val(ptCall).ptString = Some(<<112, 116, 49, 55>>) /\ Val(ptRet) = 17
       \/ /\ Val(ptCall).ptString = Some(<<112, 116, 49, 120>>)
          /\ Val(ptCall).defaultSize = 12 /\ Val(ptRet) = 12

----------------------------------------------------------------------------
(* Two mapFontFamilyToDocx calls that agree on the segment script, the     *)
(* span's font hint and the target profile.                                *)

ScriptType == {"bengali", "arabic", "latin", "digit", "punct_space", "other"}
FontHints == {"undefined", "Cairo", "arabic-naskh", "arabic-modern-sans", "SutonnyMJ"}

\* what the two calls may differ in: segment text, span fontWeight, block or
\* cell font-family suggestion, block or cell language
FontContexts ==
    [text : {<<110>>, <<1593>>},
     fontWeight : {None, Some(700)},
     suggestion : {"serif", "bengali"},
     language : {"en", "bn"}]

FontCall(script, hint, target, ctx) ==
    [text |-> ctx.text, script |-> script, fontFamily |-> hint,
     fontWeight |-> ctx.fontWeight, suggestion |-> ctx.suggestion,
     language |-> ctx.language, targetApplication |-> target]

FontOfCall(c) ==
    mapFontFamilyToDocx(c.text, c.script, c.fontFamily, c.fontWeight,
                        c.suggestion, c.language, c.targetApplication)

InitFont ==
    /\ fontCalls \in
         {Some(<<FontCall(sc, h, t, c1), FontCall(sc, h, t, c2)>>) :
            sc \in ScriptType, h \in FontHints, t \in TargetApplications,
            c1 \in FontContexts, c2 \in FontContexts}
    /\ fontRet = None
    /\ IdleRuns /\ IdlePt /\ IdleDoc /\ IdleApp

CallMapFontFamily ==
    /\ IsSome(fontCalls) /\ fontRet = None
    /\ fontRet' = Some(<<FontOfCall(Val(fontCalls)[1]), FontOfCall(Val(fontCalls)[2])>>)
    /\ UNCHANGED <<fontCalls, runsCall, runsRet, ptCall, ptRet,
                   blocks, targetApplication, docxObjects, pc,
                   packerError, rejected, savedFiles, appVars>>

NextFont == CallMapFontFamily

SpecFont == InitFont /\ [][NextFont]_vars

\* C6: two calls with the same script, hint and profile return the same
\* font, whatever text, fontWeight, suggestion and language they are given.
C6_FontDependsOnScriptHintProfile ==
    IsSome(fontRet) =>
        LET a == Val(fontCalls)[1]
            b == Val(fontCalls)[2]
        IN  (a.script = b.script /\ a.fontFamily = b.fontFamily
             /\ a.targetApplication = b.targetApplication)
            => Val(fontRet)[1] = Val(fontRet)[2]

\* two latin calls that differ in all four other arguments, resolved
C6_Witness ==
    /\ IsSome(fontRet)
    /\ LET a == Val(fontCalls)[1]
           b == Val(fontCalls)[2]
       IN  /\ a.script = "latin" /\ b.script = "latin"
           /\ a.text # b.text /\ a.fontWeight # b.fontWeight
           /\ a.suggestion # b.suggestion /\ a.language # b.language
           /\ Val(fontRet)[1] = "Times New Roman"

\* Two mapFontFamilyToDocx calls under one profile, free in script and hint
InitFontPairs ==
    /\ fontCalls \in
         {Some(<<FontCall(sc1, h1, t, [text |-> <<110>>, fontWeight |-> None,
                                        suggestion |-> "serif", language |-> "en"]),
                 FontCall(sc2, h2, t, [text |-> <<1593>>, fontWeight |-> Some(700),
                                        suggestion |-> "bengali", language |-> "bn"])>>) :
            sc1 \in ScriptType, sc2 \in ScriptType, h1 \in FontHints, h2 \in FontHints,
            t \in TargetApplications}
    /\ fontRet = None
    /\ IdleRuns /\ IdlePt /\ IdleDoc /\ IdleApp

SpecFontPairs == InitFontPairs /\ [][NextFont]_vars

\* the font names the exporter knows for a script: a list exists for arabic only
CuratedFonts(script) == IF script = "arabic" THEN commonArabicFonts ELSE {}

\* two finished calls of which the second has the first's script and no hint:
\* its result is the profile's default font for that script
SecondIsDefaultOfFirst ==
    /\ IsSome(fontRet)
    /\ Val(fontCalls)[1].script = Val(fontCalls)[2].script
    /\ Val(fontCalls)[2].fontFamily = "undefined"

\* C16 as stated: the hint verbatim when the script is bengali or arabic and
\* the hint is a curated font name for that script, and in every other case
\* the profile's default font for the script.
C16_FontResolutionOrder ==
    SecondIsDefaultOfFirst =>
        LET a == Val(fontCalls)[1]
        IN  Val(fontRet)[1] =
              IF a.script \in {"bengali", "arabic"} /\ a.fontFamily \in CuratedFonts(a.script)
              THEN a.fontFamily
              ELSE Val(fontRet)[2]

\* C16 amended: as stated, except that under the word profile an arabic
\* segment with the hint 'arabic-modern-sans' gets 'Arial', and that only
\* arabic has curated names (a bengali segment always gets the default).
C16_FontResolutionOrderWithArial ==
    SecondIsDefaultOfFirst =>
        LET a == Val(fontCalls)[1]
        IN  Val(fontRet)[1] =
              IF a.script = "arabic" /\ a.fontFamily \in commonArabicFonts
              THEN a.fontFamily
              ELSE IF a.script = "arabic" /\ a.targetApplication = "word"
                      /\ a.fontFamily = "arabic-modern-sans"
              THEN "Arial"
              ELSE Val(fontRet)[2]

\* an arabic segment hinted 'Cairo' gets 'Cairo' where the default is another font
C16_Witness ==
    /\ SecondIsDefaultOfFirst
    /\ Val(fontCalls)[1].script = "arabic" /\ Val(fontCalls)[1].fontFamily = "Cairo"
    /\ Val(fontRet) = <<"Cairo", "Noto Naskh Arabic">>

\* an arabic segment hinted 'arabic-modern-sans' under the word profile
C16_WitnessArial ==
    /\ SecondIsDefaultOfFirst
    /\ Val(fontCalls)[1].script = "arabic"
    /\ Val(fontCalls)[1].fontFamily = "arabic-modern-sans"
    /\ Val(fontRet) = <<"Arial", "Traditional Arabic">>

\* the script group a class belongs to
ScriptGroup(script) ==
    IF script \in {"latin", "digit", "punct_space"} THEN "latin" ELSE script

\* two finished calls without a hint, on scripts of different groups
DefaultsOfTwoGroups ==
    /\ IsSome(fontRet)
    /\ Val(fontCalls)[1].fontFamily = "undefined"
    /\ Val(fontCalls)[2].fontFamily = "undefined"
    /\ ScriptGroup(Val(fontCalls)[1].script) # ScriptGroup(Val(fontCalls)[2].script)

\* two finished calls on the same script, one of latin, digit, punct_space, other
SameUnhintedScript ==
    /\ IsSome(fontRet)
    /\ Val(fontCalls)[1].script = Val(fontCalls)[2].script
    /\ Val(fontCalls)[1].script \in {"latin", "digit", "punct_space", "other"}

\* C17 as stated: within a profile the default fonts of the four script
\* groups are pairwise distinct, and for latin, digit, neutral and other the
\* font is the same for every hint.
C17_DefaultsDistinct ==
    /\ DefaultsOfTwoGroups => Val(fontRet)[1] # Val(fontRet)[2]
    /\ SameUnhintedScript => Val(fontRet)[1] = Val(fontRet)[2]

\* C17 amended: the defaults are pairwise distinct under the word profile;
\* under gdocs the groups bengali, arabic and latin/digit/neutral have
\* distinct defaults and other has the latin group's default; for latin,
\* digit, neutral and other the font is the same for every hint.
C17_DefaultsDistinctButGdocsOther ==
    /\ DefaultsOfTwoGroups =>
          LET groups == {ScriptGroup(Val(fontCalls)[1].script),
                         ScriptGroup(Val(fontCalls)[2].script)}
          IN  IF Val(fontCalls)[1].targetApplication = "gdocs" /\ groups = {"latin", "other"}
              THEN Val(fontRet)[1] = Val(fontRet)[2]
              ELSE Val(fontRet)[1] # Val(fontRet)[2]
    /\ SameUnhintedScript => Val(fontRet)[1] = Val(fontRet)[2]

\* under word, other and digit without hints resolve to different fonts
C17_Witness ==
    /\ DefaultsOfTwoGroups
    /\ Val(fontCalls)[1].script = "other" /\ Val(fontCalls)[2].script = "digit"
    /\ Val(fontRet) = <<"Calibri", "Times New Roman">>

\* two calls on other with different hints resolve to the same font
C17_WitnessHints ==
    /\ SameUnhintedScript
    /\ Val(fontCalls)[1].script = "other"
    /\ Val(fontCalls)[1].fontFamily = "Cairo" /\ Val(fontCalls)[2].fontFamily = "SutonnyMJ"
    /\ Val(fontRet)[1] = Val(fontRet)[2]

----------------------------------------------------------------------------
(* generateDocx: the documents exported and the export's steps.            *)

\* "pt22", "pt11", "large"
TokPt22 == <<112, 116, 50, 50>>
TokPt11 == <<112, 116, 49, 49>>
TokLarge == <<108, 97, 114, 103, 101>>
\* "1.5", "0pt", "6pt"
Tok1_5 == <<49, 46, 53>>
Tok0pt == <<48, 112, 116>>
Tok6pt == <<54, 112, 116>>
\* "2pt", "3pt", "2px"
Tok2pt == <<50, 112, 116>>
Tok3pt == <<51, 112, 116>>
Tok2px == <<50, 112, 120>>
\* "#F00", "#0000FF"
TokRed == <<35, 70, 48, 48>>
TokBlue == <<35, 48, 48, 48, 48, 70, 70>>

\* "Report", bold
SpanReport == [PlainSpan(TextReport) EXCEPT !.isBold = Some(TRUE)]
\* "n " latin, a Bengali letter and "1", the euro sign, an Arabic letter
SpanMixed == PlainSpan(<<110, 32, 2453, 49, 8364, 1593>>)
\* "n", a line feed, a Bengali letter
SpanTwoLines == PlainSpan(<<110, 10, 2453>>)

ParaSpanLists ==
    {<<>>, <<SpanReport>>, <<SpanMixed>>, <<SpanTwoLines, SpanReport>>, <<PlainSpan(<<>>)>>}

ParaBlocks ==
    {[id |-> "b1", blockType |-> bt, language |-> lang, alignment |-> al,
      fontSizeCategory |-> cat, fontFamilySuggestion |-> "default",
      lineHeight |-> lh, spaceAfter |-> sa, spans |-> sp] :
        bt \in {"heading1", "heading3", "paragraph", "listItem"},
        lang \in {"en", "bn"},
        al \in {"center", "justify", "undefined"},
        cat \in {None, Some(TokPt22), Some(TokPt11), Some(TokLarge)},
        lh \in {None, Some(Tok1_5)},
        sa \in {None, Some(Tok0pt), Some(Tok6pt)},
        sp \in ParaSpanLists}

PlainCell(r, c) ==
    [id |-> <<r, c>>, content |-> <<PlainSpan(<<110>>)>>, colSpan |-> None,
     rowSpan |-> None, alignment |-> "undefined", backgroundColor |-> None,
     borderColor |-> None, borderWidth |-> None, fontSizeCategory |-> None,
     fontFamilySuggestion |-> "undefined", language |-> "undefined"]

\* the columns 1..n of a first row that no cell of it spans into the second row
RECURSIVE FreeColumns(_, _)
FreeColumns(rowSpans, i) ==
    IF i > Len(rowSpans) THEN <<>>
    ELSE (IF IsSome(rowSpans[i]) /\ Val(rowSpans[i]) >= 2 THEN <<>> ELSE <<i>>)
         \o FreeColumns(rowSpans, i + 1)

\* Tables of two rows as the viewer renders them (<td rowSpan=..>): a
\* position covered by a cell of the first row with rowSpan 2 has no cell of
\* its own in the second row.  The first cell carries the style overrides.
TableOf(rowSpans, first, tableBorderColor, tableBorderWidth) ==
    [id |-> "t1", blockType |-> "table", language |-> "en",
     rows |-> <<[id |-> "r1",
                 cells |-> [c \in 1..Len(rowSpans) |->
                              [(IF c = 1 THEN first ELSE PlainCell(1, c))
                                 EXCEPT !.rowSpan = rowSpans[c]]]],
                [id |-> "r2",
                 cells |-> [j \in 1..Len(FreeColumns(rowSpans, 1)) |-> PlainCell(2, j)]]>>,
     caption |-> None, tableWidth |-> None, cellPadding |-> None,
     borderColor |-> tableBorderColor, borderWidth |-> tableBorderWidth]

FirstCells ==
    {[PlainCell(1, 1) EXCEPT !.content = ct, !.fontSizeCategory = cat,
                             !.borderColor = bc, !.borderWidth = bw] :
        ct \in {<<>>, <<SpanMixed>>},
        cat \in {None, Some(TokPt22)},
        bc \in {None, Some(<<>>), Some(TokRed)},
        bw \in {None, Some(Tok2pt), Some(Tok2px)}}

RowSpanRows ==
    UNION {[1..n -> {None, Some(1), Some(2)}] : n \in 1..MaxCells}

TableBlocks ==
    {TableOf(rs, first, tbc, tbw) :
        rs \in RowSpanRows, first \in FirstCells,
        tbc \in {None, Some(TokBlue)}, tbw \in {None, Some(Tok3pt)}}

\* "5px", "4pt"
Tok5px == <<53, 112, 120>>
Tok4pt == <<52, 112, 116>>

\* tables with a cellPadding token: unparsable, parsable, empty
PaddedTables ==
    {[TableOf(rs, PlainCell(1, 1), None, None) EXCEPT !.cellPadding = Some(pad)] :
        rs \in RowSpanRows, pad \in {Tok5px, Tok4pt, <<>>}}

\* "0", "2.5pt", "1.25pt", "0.025pt", "-5pt", ".5pt", "6 pt"
Tok0 == <<48>>
Tok2_5pt == <<50, 46, 53, 112, 116>>
Tok1_25pt == <<49, 46, 50, 53, 112, 116>>
Tok0_025pt == <<48, 46, 48, 50, 53, 112, 116>>
TokMinus5pt == <<45, 53, 112, 116>>
TokDot5pt == <<46, 53, 112, 116>>
Tok6SpacePt == <<54, 32, 112, 116>>

SpaceAfterTokens ==
    {None, Some(<<>>), Some(Tok0), Some(Tok0pt), Some(Tok6pt), Some(Tok2_5pt),
     Some(Tok1_25pt), Some(Tok0_025pt), Some(Tok5px), Some(TokMinus5pt),
     Some(TokDot5pt), Some(Tok6SpacePt)}

ParagraphBlockTypes ==
    {"heading1", "heading2", "heading3", "heading4", "heading5", "heading6",
     "paragraph", "listItem"}

\* paragraph-like blocks of every type with a spaceAfter token
SpacedParagraphs ==
    {[id |-> "b1", blockType |-> bt, language |-> "en", alignment |-> "left",
      fontSizeCategory |-> Some(TokPt11), fontFamilySuggestion |-> "default",
      lineHeight |-> None, spaceAfter |-> sa, spans |-> <<SpanReport>>] :
        bt \in ParagraphBlockTypes, sa \in SpaceAfterTokens}

\* "2", "0", "-1", "abc", "1.5em", "150%", "24px", "0.0", ".5"
Tok2 == <<50>>
TokMinus1 == <<45, 49>>
TokAbc == <<97, 98, 99>>
Tok1_5em == <<49, 46, 53, 101, 109>>
Tok150Percent == <<49, 53, 48, 37>>
Tok24px == <<50, 52, 112, 120>>
Tok0_0 == <<48, 46, 48>>
TokDot5 == <<46, 53>>

LineHeightTokens ==
    {None, Some(<<>>), Some(StrNormal), Some(Tok1_5), Some(Tok2), Some(TokDot5),
     Some(Tok0), Some(Tok0_0), Some(TokMinus1), Some(TokAbc), Some(Tok1_5em),
     Some(Tok150Percent), Some(Tok24px)}

\* paragraph-like blocks with a lineHeight token, of three font sizes
LineHeightParagraphs ==
    {[id |-> "b1", blockType |-> bt, language |-> "en", alignment |-> "left",
      fontSizeCategory |-> cat, fontFamilySuggestion |-> "default",
      lineHeight |-> lh, spaceAfter |-> None, spans |-> <<SpanReport>>] :
        bt \in {"heading2", "paragraph"}, cat \in {None, Some(TokPt22), Some(TokPt11)},
        lh \in LineHeightTokens}

\* "80%", "12.5%", "500px", "abc%", "%"
Tok80Percent == <<56, 48, 37>>
Tok12_5Percent == <<49, 50, 46, 53, 37>>
Tok500px == <<53, 48, 48, 112, 120>>
TokAbcPercent == <<97, 98, 99, 37>>
TokPercent == <<37>>

TableWidthTokens ==
    {None, Some(<<>>), Some(Tok80Percent), Some(Tok12_5Percent), Some(Tok500px),
     Some(TokAbcPercent), Some(TokPercent)}

\* tables with a tableWidth token
WidthTables ==
    {[TableOf(rs, PlainCell(1, 1), None, None) EXCEPT !.tableWidth = w] :
        rs \in RowSpanRows, w \in TableWidthTokens}

InitDoc ==
    /\ blocks \in {<<b>> : b \in ParaBlocks \cup TableBlocks \cup PaddedTables
                                \cup SpacedParagraphs \cup LineHeightParagraphs
                                \cup WidthTables}
    /\ targetApplication \in TargetApplications
    /\ docxObjects = None
    /\ pc = "idle"
    /\ packerError = None /\ rejected = None /\ savedFiles = <<>>
    /\ IdleRuns /\ IdlePt /\ IdleFont /\ IdleApp

\* the file name handleExport passes with each target profile
ExportFilename(targetApplicationArg) ==
    IF targetApplicationArg = "word" THEN "extracted_text_word.docx"
    ELSE "extracted_text_gdocs.docx"

\* errors the packer can reject with: a plain Error and a RangeError
PackerFailures ==
    {[name |-> "Error", message |-> "packing failed", cause |-> None],
     [name |-> "RangeError", message |-> "Invalid array length", cause |-> None]}

GenerateDocxMutating ==
    /\ pc = "idle"
    /\ docxObjects' = Some(createDocumentContent(blocks, targetApplication))
    /\ blocks' = [i \in DOMAIN blocks |-> [blocks[i] EXCEPT !.language = "en"]]
    /\ pc' = "packing"
    /\ UNCHANGED <<targetApplication, runsCall, runsRet, ptCall, ptRet,
                   fontCalls, fontRet, packerError, rejected, savedFiles, appVars>>

\* generateDocx up to its await: the content is built and handed to the packer
GenerateDocx ==
    /\ pc = "idle"
    /\ docxObjects' = Some(createDocumentContent(blocks, targetApplication))
    /\ pc' = "packing"
    /\ UNCHANGED <<blocks, targetApplication, runsCall, runsRet, ptCall, ptRet,
                   fontCalls, fontRet, packerError, rejected, savedFiles, appVars>>

\* Packer.toBlob resolves with the payload and saveAs is called with it
PackerResolves ==
    /\ pc = "packing"
    /\ savedFiles' = Append(savedFiles, [blob |-> Val(docxObjects),
                                         filename |-> ExportFilename(targetApplication)])
    /\ pc' = "saved"
    /\ UNCHANGED <<blocks, targetApplication, docxObjects, runsCall, runsRet,
                   ptCall, ptRet, fontCalls, fontRet, packerError, rejected, appVars>>

PackerRejectsWrapped ==
    /\ pc = "packing"
    /\ \E e \in PackerFailures :
          /\ packerError' = Some(e)
          /\ rejected' = Some([name |-> "PackagingError", message |-> e.message,
                               cause |-> Some(e)])
    /\ pc' = "failed"
    /\ UNCHANGED <<blocks, targetApplication, docxObjects, runsCall, runsRet,
                   ptCall, ptRet, fontCalls, fontRet, savedFiles, appVars>>

\* Packer.toBlob rejects: the await throws that error, nothing catches it, and
\* generateDocx's promise rejects with it before saveAs is reached
PackerRejects ==
    /\ pc = "packing"
    /\ \E e \in PackerFailures :
          /\ packerError' = Some(e)
          /\ rejected' = Some(e)
    /\ pc' = "failed"
    /\ UNCHANGED <<blocks, targetApplication, docxObjects, runsCall, runsRet,
                   ptCall, ptRet, fontCalls, fontRet, savedFiles, appVars>>

NextDoc == GenerateDocx \/ PackerResolves \/ PackerRejects

SpecDoc == InitDoc /\ [][NextDoc]_vars

----------------------------------------------------------------------------
(* Properties of the exported content.                                     *)

\* the runs of a paragraph that carry text of a span
SpanTextRuns(paragraph) ==
    {paragraph.children[i] : i \in {j \in 1..Len(paragraph.children) :
        /\ IsSome(paragraph.children[j].text)
        /\ Val(paragraph.children[j].text) # <<>>}}

\* the runs of a cell's paragraph other than line breaks
CellTextRuns(paragraph) ==
    {paragraph.children[i] : i \in {j \in 1..Len(paragraph.children) :
        IsSome(paragraph.children[j].text)}}

\* the point size a font size category names; 11 when the block has none
CategoryPoints(cat) ==
    IF IsPtForm(cat) THEN DecimalValue(SubSeq(Val(cat), 3, Len(Val(cat)))) ELSE 11

HeadingScenario(b) ==
    /\ b.blockType = "heading1" /\ b.fontSizeCategory = Some(TokPt22)
    /\ b.alignment = "center" /\ b.spans = <<SpanReport>>

\* the positions <<row, index>> of the cells of a table block
CellPositions(tableBlock) ==
    UNION {{<<r, c>> : c \in 1..Len(tableBlock.rows[r].cells)} :
             r \in 1..Len(tableBlock.rows)}

InCell(pos) == blocks[1].rows[pos[1]].cells[pos[2]]
OutCell(pos) == Val(docxObjects)[1].rows[pos[1]].children[pos[2]]

TableExported == IsSome(docxObjects) /\ blocks[1].blockType = "table"
ParagraphExported == IsSome(docxObjects) /\ blocks[1].blockType # "table"

\* C7: the heading1 / pt22 / center / bold "Report" block becomes one
\* paragraph of heading level 1, centred, whose runs have size 44; and every
\* text run of a block or cell has size 2 x the point size of the block's or
\* cell's font size category (11 pt when it has none), whatever its script.
C7_RunSizes ==
    /\ ParagraphExported =>
         LET b == blocks[1]
             out == Val(docxObjects)
         IN  /\ Len(out) = 1 /\ out[1].kind = "paragraph"
             /\ HeadingScenario(b) =>
                  /\ out[1].heading = "HEADING_1"
                  /\ out[1].alignment = "CENTER"
                  /\ Len(out[1].children) = 1
                  /\ \A i \in 1..Len(out[1].children) : out[1].children[i].size = Some(44)
             /\ (b.fontSizeCategory = None \/ IsPtForm(b.fontSizeCategory)) =>
                  \A r \in SpanTextRuns(out[1]) :
                      r.size = Some(2 * CategoryPoints(b.fontSizeCategory))
             /\ \A r1, r2 \in SpanTextRuns(out[1]) : r1.size = r2.size
    /\ TableExported =>
         \A pos \in CellPositions(blocks[1]) :
             \A r \in CellTextRuns(OutCell(pos).children[1]) :
                 r.size = Some(2 * CategoryPoints(InCell(pos).fontSizeCategory))

\* the heading scenario, exported
C7_Witness == ParagraphExported /\ HeadingScenario(blocks[1])

\* a pt22 paragraph whose one span splits into runs of four scripts, exported
C7_WitnessMixed ==
    /\ ParagraphExported
    /\ blocks[1].fontSizeCategory = Some(TokPt22)
    /\ Cardinality({r.font : r \in SpanTextRuns(Val(docxObjects)[1])}) = 4

\* the colour and the width (in twentieths of a point) the tokens of the
\* model's tables stand for; an unparsable width stands for the default 1pt
ColorOfToken(tok) ==
    IF tok = TokRed THEN <<70, 48, 48>>
    ELSE IF tok = TokBlue THEN <<48, 48, 48, 48, 70, 70>>
    ELSE <<48, 48, 48, 48, 48, 48>>
WidthOfToken(tok) ==
    IF tok = Tok2pt THEN 40 ELSE IF tok = Tok3pt THEN 60 ELSE 20

Present(o) == IsSome(o) /\ Val(o) # <<>>

\* C8: each edge of each cell takes its colour from the cell's borderColor
\* when present, else the table's, else black, and its width from the cell's
\* borderWidth when present, else the table's, else 1pt, each on its own;
\* the four edges of a cell are the same.
C8_BorderFallback ==
    TableExported =>
        \A pos \in CellPositions(blocks[1]) :
            LET cell == InCell(pos)
                b == OutCell(pos).borders
                color == IF Present(cell.borderColor) THEN ColorOfToken(Val(cell.borderColor))
                         ELSE IF Present(blocks[1].borderColor)
                              THEN ColorOfToken(Val(blocks[1].borderColor))
                              ELSE <<48, 48, 48, 48, 48, 48>>
                width == IF Present(cell.borderWidth) THEN WidthOfToken(Val(cell.borderWidth))
                         ELSE IF Present(blocks[1].borderWidth)
                              THEN WidthOfToken(Val(blocks[1].borderWidth))
                              ELSE 20
            IN  /\ \A e \in {b.top, b.bottom, b.left, b.right} :
                      e.color = color /\ e.size = [num |-> width, den |-> 20]
                /\ b.top = b.bottom /\ b.bottom = b.left /\ b.left = b.right

\* a cell without a colour but with a width, in a table that sets both: the
\* colour comes from the table and the width from the cell
C8_Witness ==
    /\ TableExported
    /\ InCell(<<1, 1>>).borderColor = None /\ blocks[1].borderColor = Some(TokBlue)
    /\ InCell(<<1, 1>>).borderWidth = Some(Tok2pt) /\ blocks[1].borderWidth = Some(Tok3pt)
    /\ OutCell(<<1, 1>>).borders.top.color = <<48, 48, 48, 48, 70, 70>>
    /\ OutCell(<<1, 1>>).borders.top.size = [num |-> 40, den |-> 20]

\* the positions whose input cell has rowSpan 2 or more
OriginPositions == {pos \in CellPositions(blocks[1]) :
                      IsSome(InCell(pos).rowSpan) /\ Val(InCell(pos).rowSpan) >= 2}

\* the positions whose output cell is marked as a vertical-merge restart
MarkedPositions == {pos \in CellPositions(blocks[1]) : OutCell(pos).verticalMerge = "RESTART"}

\* the column an output cell stands in, laid out as a renderer lays out the
\* output rows: a cell of the second row takes the next column that no cell
\* of the first row spans into (all cells are one column wide)
OutRowSpans == [c \in 1..Len(Val(docxObjects)[1].rows[1].children) |->
                  Val(docxObjects)[1].rows[1].children[c].rowSpan]
ColumnOf(pos) ==
    IF pos[1] = 1 THEN pos[2]
    ELSE IF pos[2] <= Len(FreeColumns(OutRowSpans, 1))
         THEN FreeColumns(OutRowSpans, 1)[pos[2]]
         ELSE Len(OutRowSpans) + (pos[2] - Len(FreeColumns(OutRowSpans, 1)))

\* the output cells standing in column k in either row
OutputCellsInColumn(k) ==
    {pos \in UNION {{<<r, c>> : c \in 1..Len(Val(docxObjects)[1].rows[r].children)} :
                      r \in 1..Len(Val(docxObjects)[1].rows)} : ColumnOf(pos) = k}

\* C9: in a table with exactly one cell of rowSpan 2, exactly one output
\* cell is marked as merge origin, that cell is the only output cell in its
\* column over the two rows, and no cell with rowSpan absent or 1 is marked.
C9_RowSpanOrigin ==
    TableExported =>
        /\ Cardinality(OriginPositions) = 1 =>
             /\ Cardinality(MarkedPositions) = 1
             /\ MarkedPositions = OriginPositions
             /\ \A pos \in OriginPositions :
                   /\ OutCell(pos).rowSpan = Some(2)
                   /\ OutputCellsInColumn(ColumnOf(pos)) = {pos}
        /\ \A pos \in CellPositions(blocks[1]) :
              (InCell(pos).rowSpan = None \/ InCell(pos).rowSpan = Some(1))
                 => OutCell(pos).verticalMerge = "undefined"

\* a table whose first row is (rowSpan 2, rowSpan 1) and whose second row
\* has one cell, exported with one marked cell
C9_Witness ==
    /\ TableExported
    /\ Len(blocks[1].rows[1].cells) = 2 /\ Len(blocks[1].rows[2].cells) = 1
    /\ InCell(<<1, 1>>).rowSpan = Some(2) /\ InCell(<<1, 2>>).rowSpan = Some(1)
    /\ MarkedPositions = {<<1, 1>>}

\* C11: no step of an export call (building the content, the packer
\* resolving, the packer rejecting; either profile) changes the input
\* document: every block, span, row and cell keeps its fields and values.
C11_InputNotMutated == [][blocks' = blocks]_vars

\* a failed export of a Bengali paragraph whose content was built
C11_Witness ==
    /\ pc = "failed" /\ IsSome(docxObjects)
    /\ blocks[1].blockType = "paragraph" /\ blocks[1].language = "bn"
    /\ Len(blocks[1].spans) = 2

\* C12 as stated: a failed serialization reaches the caller as a
\* PackagingError carrying the underlying cause, with no file saved; a file
\* is saved exactly once and only after serialization resolved.
C12_PackagingError ==
    /\ pc = "failed" =>
          /\ IsSome(rejected)
          /\ Val(rejected).name = "PackagingError"
          /\ Val(rejected).cause = packerError
          /\ savedFiles = <<>>
    /\ pc = "saved" => Len(savedFiles) = 1 /\ rejected = None
    /\ pc \in {"idle", "packing"} => savedFiles = <<>> /\ rejected = None

\* C12 amended: a failed serialization reaches the caller as the packer's
\* own error, unchanged and unwrapped, with no file saved; a file is saved
\* exactly once, only after serialization resolved, with the built content
\* as payload.
C12_PackerErrorPropagates ==
    /\ pc = "failed" =>
          /\ IsSome(packerError)
          /\ rejected = packerError
          /\ savedFiles = <<>>
    /\ pc = "saved" =>
          /\ Len(savedFiles) = 1
          /\ savedFiles[1].blob = Val(docxObjects)
          /\ rejected = None /\ packerError = None
    /\ pc \in {"idle", "packing"} => savedFiles = <<>> /\ rejected = None

\* the packer rejected with a RangeError and generateDocx rejected
C12_Witness ==
    /\ pc = "failed"
    /\ IsSome(rejected) /\ Val(rejected).name = "RangeError"
    /\ savedFiles = <<>>

\* the packer resolved and one file was saved under the word profile's name
C12_WitnessSaved ==
    /\ pc = "saved"
    /\ Len(savedFiles) = 1 /\ savedFiles[1].filename = "extracted_text_word.docx"

\* the margins createDocumentContent gives the cells of the same table
\* without a cellPadding
AbsentPaddingMargins(tableBlock) == CellMargins([tableBlock EXCEPT !.cellPadding = None])

\* a cellPadding that is present (a non-empty string) and not of a form
\* parseUnitValueToTwips reads
UnparsablePadding(tableBlock) ==
    /\ ~Falsy(tableBlock.cellPadding)
    /\ Val(tableBlock.cellPadding) \notin {<<48>>, <<48, 112, 116>>}
    /\ ~MatchesUnitPt(Val(tableBlock.cellPadding))

\* C13: a table whose cellPadding is present but unparsable gets, on all
\* four sides of every cell, the margin of the same table with cellPadding
\* absent (the default padding).
C13_MalformedPaddingIsDefault ==
    (TableExported /\ UnparsablePadding(blocks[1])) =>
        \A pos \in CellPositions(blocks[1]) :
            OutCell(pos).margins = AbsentPaddingMargins(blocks[1])

\* whether a line holds a character of the given class
HasClass(line, class) == \E i \in 1..Len(line) : detectCharScript(line[i]) = class

\* the script the first-character policy infers from context
InferredScript(line, language) ==
    IF language = "bn" /\ ~HasClass(line, "latin") /\ ~HasClass(line, "arabic")
    THEN "bengali"
    ELSE IF language = "ar" /\ ~HasClass(line, "latin") /\ ~HasClass(line, "bengali")
    THEN "arabic"
    ELSE "latin"

\* C14: the first segment of a line has the class of the line's first
\* character when that is bengali, arabic or latin, and the script inferred
\* from context when it is neutral, digit or other.
C14_FirstCharacterPolicy ==
    \A p \in SegmentedLines :
        Len(p[1]) > 0 =>
            /\ Len(p[2]) > 0
            /\ p[2][1].script =
                  IF detectCharScript(p[1][1]) \in {"punct_space", "digit", "other"}
                  THEN InferredScript(p[1], Val(runsCall).blockLanguageFromAI)
                  ELSE detectCharScript(p[1][1])

\* the positions of a line at which its segments begin
RECURSIVE SegmentStarts(_, _)
SegmentStarts(segments, from) ==
    IF Len(segments) = 0 THEN {}
    ELSE {from} \cup SegmentStarts(Tail(segments), from + Len(Head(segments).text))

\* C15: every segment after the first begins with a character of class
\* bengali, arabic, latin or other, and no digit or neutral character after
\* the first position of a line is the start of a segment.
C15_NeutralAbsorption ==
    \A p \in SegmentedLines :
        /\ \A k \in 2..Len(p[2]) :
              /\ Len(p[2][k].text) > 0
              /\ detectCharScript(p[2][k].text[1]) \in {"bengali", "arabic", "latin", "other"}
        /\ \A i \in 2..Len(p[1]) :
              detectCharScript(p[1][i]) \in {"digit", "punct_space"}
                 => i \notin SegmentStarts(p[2], 1)

\* "n1" then a Bengali letter then "\": the digit follows a latin letter and
\* the backslash a Bengali one, and the line has two segments
C15_Witness ==
    /\ IsSome(runsRet)
    /\ Val(runsRet).textLines[1] = <<(<<110, 49, 2453, 92>>)>>
    /\ Len(Val(runsRet).segments[1][1]) = 2
    /\ Val(runsRet).segments[1][1][1].text = <<110, 49>>

----------------------------------------------------------------------------
(* One createTextRunsFromSpans call on a styled span.                      *)

\* "#12345", "#1234567", "#12", "#123456789", "F00", "#F0G", "#abcd"
Tok5Hex == <<35, 49, 50, 51, 52, 53>>
Tok7Hex == <<35, 49, 50, 51, 52, 53, 54, 55>>
Tok2Hex == <<35, 49, 50>>
Tok9Hex == <<35, 49, 50, 51, 52, 53, 54, 55, 56, 57>>
TokNoHash == <<70, 48, 48>>
TokNotHex == <<35, 70, 48, 71>>
Tok4Hex == <<35, 97, 98, 99, 100>>

SpanColors ==
    {None, Some(<<>>), Some(StrDefault), Some(StrInherit), Some(TokRed), Some(TokBlue),
     Some(Tok4Hex), Some(Tok5Hex), Some(Tok7Hex), Some(Tok2Hex), Some(Tok9Hex),
     Some(TokNoHash), Some(TokNotHex)}

\* "Report"; "n " a Bengali letter "1" the euro sign an Arabic letter; "n",
\* a line feed, a Bengali letter
StyledTexts == {TextReport, <<110, 32, 2453, 49, 8364, 1593>>, <<110, 10, 2453>>}

FontWeights == {None, Some(0), Some(100), Some(400), Some(500), Some(600), Some(700), Some(900)}

StyledSpans ==
    {[text |-> t, isBold |-> b, isItalic |-> it, fontFamily |-> "undefined",
      fontWeight |-> fw, color |-> col, textDecoration |-> dec] :
        t \in StyledTexts, b \in {None, Some(TRUE), Some(FALSE)},
        it \in {None, Some(TRUE), Some(FALSE)}, fw \in FontWeights,
        col \in SpanColors,
        dec \in {"undefined", "none", "underline", "line-through"}}

InitStyle ==
    /\ runsCall \in
         {Some([spans |-> <<sp>>,
                defaultFontSizeCategoryForBlock |-> Some(TokPt12),
                blockFontFamilySuggestionFromAI |-> "default",
                blockLanguageFromAI |-> "en",
                targetApplication |-> "word",
                defaultBlockType |-> "paragraph"]) : sp \in StyledSpans}
    /\ runsRet = None
    /\ IdlePt /\ IdleFont /\ IdleDoc /\ IdleApp

SpecStyle == InitStyle /\ [][NextRuns]_vars

\* the text runs (not line breaks) of the finished call, and its span
StyledTextRuns ==
    IF IsSome(runsRet)
    THEN {Val(runsRet).allRuns[i] :
            i \in {j \in 1..Len(Val(runsRet).allRuns) : Val(runsRet).allRuns[j].break = None}}
    ELSE {}

CalledSpan == Val(runsCall).spans[1]

\* C18: every text run of a span is bold iff fontWeight >= 600 when the
\* span has a fontWeight in 100..900, and iff isBold is true when
\* fontWeight is absent; all runs of the span have the same bold, italic
\* and decoration values; no run is both underlined and struck through.
C18_BoldRule ==
    /\ \A r \in StyledTextRuns :
          /\ (IsSome(CalledSpan.fontWeight) /\ Val(CalledSpan.fontWeight) \in 100..900)
                => r.bold = Some(Val(CalledSpan.fontWeight) >= 600)
          /\ CalledSpan.fontWeight = None
                => r.bold = Some(CalledSpan.isBold = Some(TRUE))
          /\ ~(r.underline /\ r.strike)
          /\ r.underline = (CalledSpan.textDecoration = "underline")
          /\ r.strike = (CalledSpan.textDecoration = "line-through")
    /\ \A r1 \in StyledTextRuns, r2 \in StyledTextRuns :
          /\ r1.bold = r2.bold /\ r1.italics = r2.italics
          /\ r1.underline = r2.underline /\ r1.strike = r2.strike

\* a span of weight 400 flagged bold, struck through, in three sub-runs or
\* more, none of them bold
C18_Witness ==
    /\ IsSome(runsRet)
    /\ CalledSpan.fontWeight = Some(400) /\ CalledSpan.isBold = Some(TRUE)
    /\ CalledSpan.textDecoration = "line-through"
    /\ Cardinality(StyledTextRuns) >= 3
    /\ \A r \in StyledTextRuns : r.bold = Some(FALSE) /\ r.strike

\* '#' followed by 3, 4, 6 or 8 hexadecimal digits
ValidHexColor(color) ==
    /\ IsSome(color)
    /\ Len(Val(color)) \in {4, 5, 7, 9}
    /\ Val(color)[1] = 35
    /\ \A i \in 2..Len(Val(color)) : IsHexDigit(Val(color)[i])

\* C19: a text run carries a color iff the span's color is a syntactically
\* valid hex value, and the color is then that value without its leading
\* '#'; otherwise the run has no color.
C19_RunColor ==
    \A r \in StyledTextRuns :
        r.color = IF ValidHexColor(CalledSpan.color)
                  THEN Some(Tail(Val(CalledSpan.color)))
                  ELSE None

\* the run texts in order, with a line feed (10) for every line-break run
RECURSIVE JoinRuns(_)
JoinRuns(runs) ==
    IF Len(runs) = 0 THEN <<>>
    ELSE (IF IsSome(Head(runs).break) THEN <<10>> ELSE Val(Head(runs).text))
         \o JoinRuns(Tail(runs))

\* the lines in order, with a line feed between consecutive lines
RECURSIVE JoinLines(_)
JoinLines(lines) ==
    IF Len(lines) = 0 THEN <<>>
    ELSE IF Len(lines) = 1 THEN lines[1]
    ELSE lines[1] \o <<10>> \o JoinLines(Tail(lines))

BreakCount(runs) == Cardinality({i \in 1..Len(runs) : IsSome(runs[i].break)})

\* C20: a span whose text splits into n lines yields exactly n-1 line-break
\* runs, placed so that the run texts joined with a line feed at each break
\* are the lines joined with line feeds (the span text with its newline
\* markers normalised); no text run is empty, so an empty line emits none.
C20_LineBreaks ==
    IsSome(runsRet) =>
        LET runs == Val(runsRet).allRuns
            lines == Val(runsRet).textLines[1]
        IN  /\ BreakCount(runs) = Len(lines) - 1
            /\ JoinRuns(runs) = JoinLines(lines)
            /\ \A i \in 1..Len(runs) :
                  runs[i].break = None => Len(Val(runs[i].text)) > 0

\* "n", an escaped newline marker, a line feed: three lines of which the
\* last two are empty, and the runs n, break, break
C20_Witness ==
    /\ IsSome(runsRet)
    /\ Val(runsCall).spans[1].text = <<110, 92, 110, 10>>
    /\ Val(runsRet).textLines[1] = <<(<<110>>), <<>>, <<>>>>
    /\ BreakCount(Val(runsRet).allRuns) = 2
    /\ Len(Val(runsRet).allRuns) = 3

\* the thousandths of a point a '<number>pt' token of the model stands for;
\* -1 for a token that is not of that form
PtTokenThousandths(tok) ==
    CASE tok = Some(Tok6pt) -> 6000
      [] tok = Some(Tok2_5pt) -> 2500
      [] tok = Some(Tok1_25pt) -> 1250
      [] tok = Some(Tok0_025pt) -> 25
      [] OTHER -> -1

\* round(n / d) for n >= 0 and d > 0, a half rounding up
RoundedQuotient(n, d) == (2 * n + d) \div (2 * d)

\* C21: the spacing after a paragraph-like block is 200 (heading1..6) or
\* 100 (paragraph, listItem) when spaceAfter is absent, 0 for '0' and '0pt',
\* round(number x 20) for '<number>pt', and the absent-token default for
\* every other token.
C21_SpaceAfter ==
    ParagraphExported =>
        LET b == blocks[1]
            default == IF b.blockType \in {"heading1", "heading2", "heading3",
                                           "heading4", "heading5", "heading6"}
                       THEN 200 ELSE 100
        IN  Val(Val(docxObjects)[1].spacing).after =
              IF b.spaceAfter \in {Some(Tok0), Some(Tok0pt)} THEN 0
              ELSE IF PtTokenThousandths(b.spaceAfter) >= 0
              THEN RoundedQuotient(PtTokenThousandths(b.spaceAfter) * 20, 1000)
              ELSE default

\* a heading5 with the unparsable '5px' exported with the heading default
C21_Witness ==
    /\ ParagraphExported
    /\ blocks[1].blockType = "heading5" /\ blocks[1].spaceAfter = Some(Tok5px)
    /\ Val(Val(docxObjects)[1].spacing).after = 200

\* a listItem with '0.025pt', half a unit, exported with 1
C21_WitnessRounded ==
    /\ ParagraphExported
    /\ blocks[1].blockType = "listItem" /\ blocks[1].spaceAfter = Some(Tok0_025pt)
    /\ Val(Val(docxObjects)[1].spacing).after = 1

\* the thousandths a bare positive numeric multiplier of the model stands
\* for; -1 for every other token
MultiplierThousandths(tok) ==
    CASE tok = Some(Tok1_5) -> 1500
      [] tok = Some(Tok2) -> 2000
      [] tok = Some(TokDot5) -> 500
      [] OTHER -> -1

\* the point size of a valid or absent font size category of the model
BlockPoints(cat) == IF cat = Some(TokPt22) THEN 22 ELSE 11

\* C22: the line spacing is auto with round(points x 1.15 x 20)
\* (= 23 x points) for an absent token, 'normal' and every token that is
\* not a bare positive numeric multiplier, and exact with
\* round(points x m x 20) for a bare positive multiplier m.
C22_LineSpacing ==
    (ParagraphExported /\ blocks[1].fontSizeCategory \in {None, Some(TokPt22), Some(TokPt11)}) =>
        LET b == blocks[1]
            points == BlockPoints(b.fontSizeCategory)
            spacing == Val(Val(docxObjects)[1].spacing)
        IN  IF MultiplierThousandths(b.lineHeight) > 0
            THEN /\ spacing.lineRule = "exact"
                 /\ spacing.line = RoundedQuotient(points * MultiplierThousandths(b.lineHeight) * 20, 1000)
            ELSE /\ spacing.lineRule = "auto"
                 /\ spacing.line = 23 * points

----------------------------------------------------------------------------
(* generateDocx over documents of several blocks.                          *)

\* a paragraph, a heading, a one-column table without caption, a two-column
\* table with a caption, a one-column table with an empty caption
OrderPalette ==
    {[id |-> "p", blockType |-> "paragraph", language |-> "en", alignment |-> "left",
      fontSizeCategory |-> Some(TokPt11), fontFamilySuggestion |-> "default",
      lineHeight |-> None, spaceAfter |-> None, spans |-> <<SpanReport>>],
     [id |-> "h", blockType |-> "heading1", language |-> "en", alignment |-> "left",
      fontSizeCategory |-> Some(TokPt22), fontFamilySuggestion |-> "default",
      lineHeight |-> None, spaceAfter |-> None, spans |-> <<>>],
     TableOf(<<None>>, PlainCell(1, 1), None, None),
     [TableOf(<<None, None>>, PlainCell(1, 1), None, None)
        EXCEPT !.caption = Some(<<SpanReport>>)],
     [TableOf(<<None>>, PlainCell(1, 1), None, None) EXCEPT !.caption = Some(<<>>)]}

InitDocOrder ==
    /\ blocks \in SeqsUpTo(OrderPalette, MaxBlocks)
    /\ targetApplication \in TargetApplications
    /\ docxObjects = None
    /\ pc = "idle"
    /\ packerError = None /\ rejected = None /\ savedFiles = <<>>
    /\ IdleRuns /\ IdlePt /\ IdleFont /\ IdleApp

SpecDocOrder == InitDocOrder /\ [][NextDoc]_vars

HasCaption(block) ==
    block.blockType = "table" /\ IsSome(block.caption) /\ Len(Val(block.caption)) > 0

\* what a block is to become: its output kinds in order, each with a mark
\* that tells the blocks of the palette apart (the heading level of a
\* paragraph, the number of cells in a table's first row)
ExpectedOfBlock(block) ==
    IF block.blockType = "table"
    THEN (IF HasCaption(block) THEN <<[kind |-> "caption", mark |-> "CENTER"]>> ELSE <<>>)
         \o <<[kind |-> "table", mark |-> Len(block.rows[1].cells)]>>
    ELSE <<[kind |-> "paragraph",
            mark |-> IF block.blockType = "heading1" THEN "HEADING_1" ELSE "undefined"]>>

RECURSIVE ExpectedOutput(_)
ExpectedOutput(blockSeq) ==
    IF Len(blockSeq) = 0 THEN <<>>
    ELSE ExpectedOfBlock(Head(blockSeq)) \o ExpectedOutput(Tail(blockSeq))

\* the kind and mark of an output object
OutputItem(o) ==
    IF o.kind = "table" THEN [kind |-> "table", mark |-> Len(o.rows[1].children)]
    ELSE IF o.style = "Caption" THEN [kind |-> "caption", mark |-> o.alignment]
    ELSE [kind |-> "paragraph", mark |-> o.heading]

\* C23: the output is, in block order, one paragraph per paragraph-like
\* block and one table per table block, the table preceded immediately by
\* one centred caption paragraph iff its caption is non-empty; its length is
\* the number of blocks plus the number of captioned tables.
C23_OutputOrder ==
    IsSome(docxObjects) =>
        LET out == Val(docxObjects)
        IN  /\ [i \in 1..Len(out) |-> OutputItem(out[i])] = ExpectedOutput(blocks)
            /\ Len(out) = Len(blocks)
                           + Cardinality({i \in 1..Len(blocks) : HasCaption(blocks[i])})

\* heading, captioned table, paragraph: four output objects, the caption second
C23_Witness ==
    /\ IsSome(docxObjects)
    /\ Len(blocks) = 3
    /\ blocks[1].blockType = "heading1" /\ HasCaption(blocks[2])
    /\ blocks[3].blockType = "paragraph"
    /\ Len(Val(docxObjects)) = 4
    /\ Val(docxObjects)[2].style = "Caption" /\ Val(docxObjects)[3].kind = "table"

\* C24: in a paragraph-like block the point size the line spacing is
\* computed from is the point size of the block's text runs (half their
\* size in half-points): with lineHeight absent the spacing is 23 x that
\* size, with lineHeight '1.5' it is 30 x that size.
C24_SizeConsistency ==
    (ParagraphExported /\ blocks[1].lineHeight \in {None, Some(Tok1_5)}) =>
        LET out == Val(docxObjects)[1]
            line == Val(out.spacing).line
        IN  \A r \in SpanTextRuns(out) :
                IF blocks[1].lineHeight = None
                THEN 2 * line = 23 * Val(r.size)
                ELSE line = 15 * Val(r.size)

\* whether a token ends with '%' (code unit 37)
EndsWithPercent(tok) == IsSome(tok) /\ Len(Val(tok)) > 0 /\ Val(tok)[Len(Val(tok))] = 37

\* the tenths of a percent a percentage token of the model stands for
PercentTokenTenths(tok) ==
    CASE tok = Some(Tok80Percent) -> 800
      [] tok = Some(Tok12_5Percent) -> 125
      [] OTHER -> -1

\* C25: for every tableWidth token the width of the table is a number of
\* percent: the token's numeric value when it ends with '%', 100 otherwise.
C25_TableWidth ==
    TableExported =>
        LET size == Val(docxObjects)[1].width.size
            tok == blocks[1].tableWidth
        IN  /\ IsSome(size)
            /\ ~Val(size).neg
            /\ ~EndsWithPercent(tok) => Val(size).mant = 100 * Val(size).scale
            /\ PercentTokenTenths(tok) >= 0 =>
                  10 * Val(size).mant = PercentTokenTenths(tok) * Val(size).scale

----------------------------------------------------------------------------
(* The App component: span edits (handleSpanTextChange).                   *)
(* Indices are JavaScript's, from 0; rowIndex and cellIndex are optional.  *)

\* [...spans] with the span at spanIndex, if there is one, given newText
WithSpanText(spans, spanIndex, newText) ==
    [i \in 1..Len(spans) |->
        IF i = spanIndex + 1 THEN [spans[i] EXCEPT !.text = newText] ELSE spans[i]]

\* mutant: a table edit keeps only the edited cell's first span
EditBlockDropsSpans(block, blockId, spanIndex, newText, rowIndex, cellIndex) ==
    IF block.id = blockId
    THEN IF block.blockType = "table" /\ IsSome(rowIndex) /\ IsSome(cellIndex)
         THEN [block EXCEPT !.rows =
                 [rIdx \in 1..Len(block.rows) |->
                    IF rIdx = Val(rowIndex) + 1
                    THEN [block.rows[rIdx] EXCEPT !.cells =
                            [cIdx \in 1..Len(block.rows[rIdx].cells) |->
                               IF cIdx = Val(cellIndex) + 1
                               THEN [block.rows[rIdx].cells[cIdx] EXCEPT !.content =
                                       SubSeq(WithSpanText(block.rows[rIdx].cells[cIdx].content,
                                                           spanIndex, newText), 1, 1)]
                               ELSE block.rows[rIdx].cells[cIdx]]]
                    ELSE block.rows[rIdx]]]
         ELSE IF block.blockType # "table"
         THEN [block EXCEPT !.spans = WithSpanText(block.spans, spanIndex, newText)]
         ELSE block
    ELSE block

\* the callback of prevFormattedText.map for one block
EditBlock(block, blockId, spanIndex, newText, rowIndex, cellIndex) ==
    IF block.id = blockId
    THEN IF block.blockType = "table" /\ IsSome(rowIndex) /\ IsSome(cellIndex)
         THEN [block EXCEPT !.rows =
                 [rIdx \in 1..Len(block.rows) |->
                    IF rIdx = Val(rowIndex) + 1
                    THEN [block.rows[rIdx] EXCEPT !.cells =
                            [cIdx \in 1..Len(block.rows[rIdx].cells) |->
                               IF cIdx = Val(cellIndex) + 1
                               THEN [block.rows[rIdx].cells[cIdx] EXCEPT !.content =
                                       WithSpanText(block.rows[rIdx].cells[cIdx].content,
                                                    spanIndex, newText)]
                               ELSE block.rows[rIdx].cells[cIdx]]]
                    ELSE block.rows[rIdx]]]
         ELSE IF block.blockType # "table"
         THEN [block EXCEPT !.spans = WithSpanText(block.spans, spanIndex, newText)]
         ELSE block
    ELSE block

handleSpanTextChange(prevFormattedText, blockId, spanIndex, newText, rowIndex, cellIndex) ==
    [b \in 1..Len(prevFormattedText) |->
        EditBlock(prevFormattedText[b], blockId, spanIndex, newText, rowIndex, cellIndex)]

\* a paragraph of two spans, a captioned table of a two-cell row and a
\* one-cell row whose first cell holds two spans, and a heading without spans
EditDoc ==
    <<[id |-> "b1", blockType |-> "paragraph", language |-> "en", alignment |-> "left",
       fontSizeCategory |-> Some(TokPt11), fontFamilySuggestion |-> "default",
       lineHeight |-> None, spaceAfter |-> None,
       spans |-> <<SpanReport, PlainSpan(<<110>>)>>],
      [TableOf(<<None, None>>, [PlainCell(1, 1) EXCEPT !.content =
                                   <<PlainSpan(<<110>>), SpanReport>>], None, None)
         EXCEPT !.caption = Some(<<SpanReport>>)],
      [id |-> "b2", blockType |-> "heading1", language |-> "bn", alignment |-> "center",
       fontSizeCategory |-> Some(TokPt22), fontFamilySuggestion |-> "default",
       lineHeight |-> None, spaceAfter |-> None, spans |-> <<>>]>>

\* the calls made on the document: by a span of a paragraph (no row, no
\* cell; the text emptied), by a span of a table cell (the text set to
\* "x"), with row and cell on a paragraph, and with a row but no cell
EditCalls ==
    {[blockId |-> id, spanIndex |-> si, newText |-> <<>>, rowIndex |-> None, cellIndex |-> None] :
        id \in {"b1", "t1", "b2", "zz"}, si \in {0, 1, 2}}
    \cup
    {[blockId |-> "t1", spanIndex |-> si, newText |-> <<120>>, rowIndex |-> Some(r),
      cellIndex |-> Some(c)] :
        si \in {0, 1}, r \in {0, 1, 2}, c \in {0, 1, 2}}
    \cup
    {[blockId |-> "t1", spanIndex |-> 2, newText |-> <<120>>, rowIndex |-> Some(0),
      cellIndex |-> Some(0)],
     [blockId |-> "b1", spanIndex |-> 0, newText |-> <<120>>, rowIndex |-> Some(0),
      cellIndex |-> Some(0)],
     [blockId |-> "t1", spanIndex |-> 0, newText |-> <<120>>, rowIndex |-> Some(0),
      cellIndex |-> None]}

InitEdit ==
    /\ formattedText \in {EditDoc, <<>>}
    /\ spanEdit = None
    /\ IdleRuns /\ IdlePt /\ IdleFont /\ IdleDoc /\ IdleChat /\ IdleLoad /\ IdleExport
    /\ IdleRest

\* one handleSpanTextChange call, with its state update applied
HandleSpanTextChange ==
    /\ \E e \in EditCalls :
          /\ formattedText' = handleSpanTextChange(formattedText, e.blockId, e.spanIndex,
                                                   e.newText, e.rowIndex, e.cellIndex)
          /\ spanEdit' = Some(e)
    /\ UNCHANGED <<serviceVars, restVars, chatVars, loadVars, exportVars>>

NextEdit == HandleSpanTextChange

SpecEdit == InitEdit /\ [][NextEdit]_vars

\* the replacement of every span text of a span list by the empty text
BlankSpans(spans) == [i \in 1..Len(spans) |-> [spans[i] EXCEPT !.text = <<>>]]

\* a document with every span text of its blocks and cells blanked: what is
\* left is the number and order of blocks, rows, cells and spans, the ids
\* and every field other than the texts
Skeleton(doc) ==
    [b \in 1..Len(doc) |->
        IF doc[b].blockType = "table"
        THEN [doc[b] EXCEPT !.rows =
                [r \in 1..Len(doc[b].rows) |->
                    [doc[b].rows[r] EXCEPT !.cells =
                        [c \in 1..Len(doc[b].rows[r].cells) |->
                            [doc[b].rows[r].cells[c] EXCEPT !.content =
                                BlankSpans(doc[b].rows[r].cells[c].content)]]]]]
        ELSE [doc[b] EXCEPT !.spans = BlankSpans(doc[b].spans)]]

\* the span positions of a document: <<block, 0, 0, span>> in a paragraph,
\* <<block, row, cell, span>> in a table, counted from 1
SpanPositions(doc) ==
    UNION {IF doc[b].blockType = "table"
           THEN UNION {UNION {{<<b, r, c, i>> : i \in 1..Len(doc[b].rows[r].cells[c].content)} :
                                c \in 1..Len(doc[b].rows[r].cells)} :
                         r \in 1..Len(doc[b].rows)}
           ELSE {<<b, 0, 0, i>> : i \in 1..Len(doc[b].spans)} :
           b \in 1..Len(doc)}

TextAt(doc, pos) ==
    IF pos[2] = 0 THEN doc[pos[1]].spans[pos[4]].text
    ELSE doc[pos[1]].rows[pos[2]].cells[pos[3]].content[pos[4]].text

\* the span positions a call addresses
Addressed(doc, e) ==
    {pos \in SpanPositions(doc) :
        /\ doc[pos[1]].id = e.blockId
        /\ pos[4] = e.spanIndex + 1
        /\ pos[2] # 0 => /\ e.rowIndex = Some(pos[2] - 1)
                         /\ e.cellIndex = Some(pos[3] - 1)}

\* C26: a handleSpanTextChange call leaves the number and order of blocks,
\* rows, cells and spans, the ids and every field other than span texts
\* unchanged; it addresses at most one span, gives that span the new text
\* and leaves every other text unchanged.
C26_EditChangesOneText ==
    [][IsSome(spanEdit') =>
         /\ Skeleton(formattedText') = Skeleton(formattedText)
         /\ Cardinality(Addressed(formattedText, Val(spanEdit'))) <= 1
         /\ \A pos \in SpanPositions(formattedText) :
               TextAt(formattedText', pos) =
                  IF pos \in Addressed(formattedText, Val(spanEdit'))
                  THEN Val(spanEdit').newText
                  ELSE TextAt(formattedText, pos)]_vars

\* the second span of the first cell of the table was just given the text
\* "x", after an earlier edit emptied the first span of the paragraph
C26_Witness ==
    /\ IsSome(spanEdit)
    /\ Val(spanEdit).blockId = "t1" /\ Val(spanEdit).spanIndex = 1
    /\ Val(spanEdit).rowIndex = Some(0) /\ Val(spanEdit).cellIndex = Some(0)
    /\ Len(formattedText) = 3
    /\ formattedText[2].rows[1].cells[1].content[2].text = <<120>>
    /\ formattedText[1].spans[1].text = <<>>

\* ---------------------------------------------------------------------
\* The AI chat of the App component: handleAIChatSubmit
\* ---------------------------------------------------------------------

\* a parsed JSON value: its kind and its content
J(type, value) == [type |-> type, value |-> value]
JNull == J("null", <<>>)
JUndefined == J("undefined", <<>>)

\* typeof value
TypeOf(j) == IF j.type \in {"null", "array"} THEN "object" ELSE j.type

\* Array.isArray(value)
ArrayIsArray(j) == j.type = "array"

\* value.name, for a value that is neither null nor undefined
Field(j, name) ==
    IF j.type = "object" /\ name \in DOMAIN j.value THEN j.value[name] ELSE JUndefined

\* the value a parsed JSON value is, once stored
RECURSIVE FromJson(_)
FromJson(j) ==
    CASE j.type = "array" -> [i \in 1..Len(j.value) |-> FromJson(j.value[i])]
      [] j.type = "object" -> [f \in DOMAIN j.value |-> FromJson(j.value[f])]
      [] OTHER -> j.value

\* the callback of the span lists' every()
SpanIsValid(span) ==
    /\ TypeOf(span) = "object" /\ span # JNull
    /\ TypeOf(Field(span, "text")) = "string"

\* array.every(callback) of an array value
EverySpanIsValid(j) == \A i \in 1..Len(j.value) : SpanIsValid(j.value[i])

CellIsValid(cell) ==
    /\ TypeOf(cell) = "object" /\ cell # JNull
    /\ TypeOf(Field(cell, "id")) = "string"
    /\ ArrayIsArray(Field(cell, "content"))
    /\ EverySpanIsValid(Field(cell, "content"))

RowIsValid(row) ==
    /\ TypeOf(row) = "object" /\ row # JNull
    /\ TypeOf(Field(row, "id")) = "string"
    /\ ArrayIsArray(Field(row, "cells"))
    /\ \A i \in 1..Len(Field(row, "cells").value) : CellIsValid(Field(row, "cells").value[i])

\* a block check that stops after the id and the blockType
BlockIsValidHeadOnly(block) ==
    /\ TypeOf(block) = "object" /\ block # JNull
    /\ TypeOf(Field(block, "id")) = "string"
    /\ TypeOf(Field(block, "blockType")) = "string"

\* the callback of parsedData.every()
BlockIsValid(block) ==
    IF \/ TypeOf(block) # "object" \/ block = JNull
       \/ TypeOf(Field(block, "id")) # "string"
       \/ TypeOf(Field(block, "blockType")) # "string"
    THEN FALSE
    ELSE IF Field(block, "blockType").value = "table"
         THEN /\ ArrayIsArray(Field(block, "rows"))
              /\ \A i \in 1..Len(Field(block, "rows").value) :
                    RowIsValid(Field(block, "rows").value[i])
         ELSE /\ ArrayIsArray(Field(block, "spans"))
              /\ EverySpanIsValid(Field(block, "spans"))

\* the test made of parsedData before its blocks are validated
LooksLikeBlockArray(parsedData) ==
    /\ ArrayIsArray(parsedData)
    /\ \/ Len(parsedData.value) = 0
       \/ /\ Len(parsedData.value) > 0
          /\ TypeOf(parsedData.value[1]) = "object"
          /\ parsedData.value[1] # JNull
          /\ TypeOf(Field(parsedData.value[1], "id")) = "string"
          /\ TypeOf(Field(parsedData.value[1], "blockType")) = "string"

\* JSON values of spans, paragraphs and tables
JSpan(text) == J("object", [text |-> J("string", text)])
JParagraph(id, spans) ==
    J("object", [id |-> J("string", id), blockType |-> J("string", "paragraph"),
                 spans |-> spans])
JCell(content) == J("object", [id |-> J("string", "c1"), content |-> content])
JRow(cells) == J("object", [id |-> J("string", "r1"), cells |-> cells])
JTable(rows) ==
    J("object", [id |-> J("string", "t1"), blockType |-> J("string", "table"),
                 rows |-> rows])

\* response texts of the model
TextNone == ""
TextBlank == " \n"
TextProse == "I cannot do that."
TextObject == "{\"id\":\"b1\"}"
TextEmptyArray == "[]"
\* <fence> stands for the three grave accents of a code fence
TextFencedEmptyArray == "<fence>json\n[]\n<fence>"
TextParagraph == "[{\"id\":\"b1\",\"blockType\":\"paragraph\",\"spans\":[{\"text\":\"n\"}]}]"
TextTable == "[{\"id\":\"t1\",\"blockType\":\"table\",\"rows\":[{\"id\":\"r1\",\"cells\":[{\"id\":\"c1\",\"content\":[{\"text\":\"n\"}]}]}]}]"
TextTwoParagraphs == "[{\"id\":\"b1\",\"blockType\":\"paragraph\",\"spans\":[]},{\"id\":\"b2\",\"blockType\":\"paragraph\",\"spans\":[{\"text\":\"x\"}]}]"
TextSecondIdNumber == "[{\"id\":\"b1\",\"blockType\":\"paragraph\",\"spans\":[]},{\"id\":7,\"blockType\":\"paragraph\",\"spans\":[]}]"
TextFirstIdNumber == "[{\"id\":7,\"blockType\":\"paragraph\",\"spans\":[]}]"
TextNullBlock == "[null]"
TextNoSpans == "[{\"id\":\"b1\",\"blockType\":\"paragraph\"}]"
TextSpanTextNumber == "[{\"id\":\"b1\",\"blockType\":\"paragraph\",\"spans\":[{\"text\":5}]}]"
TextNoRows == "[{\"id\":\"t1\",\"blockType\":\"table\",\"spans\":[]}]"
TextCellContentObject == "[{\"id\":\"t1\",\"blockType\":\"table\",\"rows\":[{\"id\":\"r1\",\"cells\":[{\"id\":\"c1\",\"content\":{}}]}]}]"
TextCellSpanNull == "[{\"id\":\"t1\",\"blockType\":\"table\",\"rows\":[{\"id\":\"r1\",\"cells\":[{\"id\":\"c1\",\"content\":[null]}]}]}]"

ResponseTexts ==
    {TextNone, TextBlank, TextProse, TextObject, TextEmptyArray, TextFencedEmptyArray,
     TextParagraph, TextTable, TextTwoParagraphs, TextSecondIdNumber, TextFirstIdNumber,
     TextNullBlock, TextNoSpans, TextSpanTextNumber, TextNoRows, TextCellContentObject,
     TextCellSpanNull}

\* text.trim()
Trim(text) == IF text = TextBlank THEN "" ELSE text

\* the text inside the code fence when the whole text is one non-empty
\* fence, the text otherwise
FenceContent(text) == IF text = TextFencedEmptyArray THEN TextEmptyArray ELSE text

\* JSON.parse(text): None for a SyntaxError
JSONParse(text) ==
    CASE text = TextObject -> Some(J("object", [id |-> J("string", "b1")]))
      [] text = TextEmptyArray -> Some(J("array", <<>>))
      [] text = TextParagraph ->
            Some(J("array", <<JParagraph("b1", J("array", <<JSpan(<<110>>)>>))>>))
      [] text = TextTable ->
            Some(J("array", <<JTable(J("array",
                     <<JRow(J("array", <<JCell(J("array", <<JSpan(<<110>>)>>))>>))>>))>>))
      [] text = TextTwoParagraphs ->
            Some(J("array", <<JParagraph("b1", J("array", <<>>)),
                              JParagraph("b2", J("array", <<JSpan(<<120>>)>>))>>))
      [] text = TextSecondIdNumber ->
            Some(J("array", <<JParagraph("b1", J("array", <<>>)),
                              J("object", [id |-> J("number", 7),
                                           blockType |-> J("string", "paragraph"),
                                           spans |-> J("array", <<>>)])>>))
      [] text = TextFirstIdNumber ->
            Some(J("array", <<J("object", [id |-> J("number", 7),
                                           blockType |-> J("string", "paragraph"),
                                           spans |-> J("array", <<>>)])>>))
      [] text = TextNullBlock -> Some(J("array", <<JNull>>))
      [] text = TextNoSpans ->
            Some(J("array", <<J("object", [id |-> J("string", "b1"),
                                           blockType |-> J("string", "paragraph")])>>))
      [] text = TextSpanTextNumber ->
            Some(J("array", <<JParagraph("b1", J("array",
                     <<J("object", [text |-> J("number", 5)])>>))>>))
      [] text = TextNoRows ->
            Some(J("array", <<J("object", [id |-> J("string", "t1"),
                                           blockType |-> J("string", "table"),
                                           spans |-> J("array", <<>>)])>>))
      [] text = TextCellContentObject ->
            Some(J("array", <<JTable(J("array",
                     <<JRow(J("array", <<JCell(J("object", <<>>))>>))>>))>>))
      [] text = TextCellSpanNull ->
            Some(J("array", <<JTable(J("array",
                     <<JRow(J("array", <<JCell(J("array", <<JNull>>))>>))>>))>>))
      [] OTHER -> None

\* what ai.models.generateContent settles with: a rejection, whose reason
\* may carry no message, or a response with its text
ChatResponses ==
    {[rejection |-> Some("Failed to fetch"), text |-> TextNone],
     [rejection |-> Some(""), text |-> TextNone]}
    \cup {[rejection |-> None, text |-> t] : t \in ResponseTexts}

ChatCommands == {"Make the first heading blue"}

ChatMessage(sender, content) == [sender |-> sender, content |-> content]

InitChat ==
    /\ formattedText \in {EditDoc, <<>>}
    /\ spanEdit = None
    /\ ai \in BOOLEAN
    /\ chatHistory = <<>> /\ aiChatError = None /\ isAIChatProcessing = FALSE
    /\ chatCalls = 0 /\ chatCall = None /\ chatReturn = None
    /\ IdleRuns /\ IdlePt /\ IdleFont /\ IdleDoc /\ IdleLoad /\ IdleExport /\ IdleRest

\* handleAIChatSubmit without an AI client
ChatSubmitNoClient ==
    /\ ~isAIChatProcessing /\ chatCalls < MaxCommands
    /\ ~ai
    /\ \E userCommand \in ChatCommands :
          chatReturn' = Some([call |-> chatCalls + 1, userCommand |-> userCommand,
                              outcome |-> "no AI client", response |-> None])
    /\ aiChatError' = Some("AI client is not initialized. Cannot process chat command.")
    /\ chatHistory' = Append(chatHistory,
          ChatMessage("system", <<"AI client not ready. Please ensure API Key is configured.">>))
    /\ chatCalls' = chatCalls + 1
    /\ UNCHANGED <<serviceVars, restVars, docVars, loadVars, exportVars,
                   ai, isAIChatProcessing, chatCall>>

\* handleAIChatSubmit on an empty document
ChatSubmitEmptyDocument ==
    /\ ~isAIChatProcessing /\ chatCalls < MaxCommands
    /\ ai /\ Len(formattedText) = 0
    /\ \E userCommand \in ChatCommands :
          chatReturn' = Some([call |-> chatCalls + 1, userCommand |-> userCommand,
                              outcome |-> "empty document", response |-> None])
    /\ aiChatError' = Some("No extracted text available to edit.")
    /\ chatHistory' = Append(chatHistory,
          ChatMessage("system", <<"No document loaded to edit.">>))
    /\ chatCalls' = chatCalls + 1
    /\ UNCHANGED <<serviceVars, restVars, docVars, loadVars, exportVars,
                   ai, isAIChatProcessing, chatCall>>

\* handleAIChatSubmit up to its await of ai.models.generateContent
ChatSubmit ==
    /\ ~isAIChatProcessing /\ chatCalls < MaxCommands
    /\ ai /\ Len(formattedText) # 0
    /\ \E userCommand \in ChatCommands :
          /\ chatHistory' = Append(chatHistory, ChatMessage("user", <<userCommand>>))
          /\ chatCall' = Some([call |-> chatCalls + 1, userCommand |-> userCommand])
    /\ isAIChatProcessing' = TRUE
    /\ aiChatError' = None
    /\ chatCalls' = chatCalls + 1
    /\ UNCHANGED <<serviceVars, restVars, docVars, loadVars, exportVars, ai, chatReturn>>

\* handleAIChatSubmit from the settling of generateContent to its end
ChatResponse ==
    /\ IsSome(chatCall)
    /\ \E response \in ChatResponses :
          LET aiResponseText == Trim(response.text)
              potentialJsonStr == FenceContent(aiResponseText)
              parsed == JSONParse(potentialJsonStr)
              errorMessage ==
                  IF IsSome(response.rejection)
                  THEN IF Val(response.rejection) # "" THEN Val(response.rejection)
                       ELSE "An unexpected error occurred with the AI chat."
                  ELSE "AI returned an empty response."
              outcome ==
                  IF IsSome(response.rejection) \/ response.text = "" THEN "failed"
                  ELSE IF /\ IsSome(parsed)
                          /\ LooksLikeBlockArray(Val(parsed))
                          /\ \A i \in 1..Len(Val(parsed).value) :
                                BlockIsValid(Val(parsed).value[i])
                       THEN "applied"
                       ELSE "natural language"
          IN  /\ chatReturn' = Some([call |-> Val(chatCall).call,
                                     userCommand |-> Val(chatCall).userCommand,
                                     outcome |-> outcome, response |-> Some(response)])
              /\ formattedText' = IF outcome = "applied" THEN FromJson(Val(parsed))
                                  ELSE formattedText
              /\ chatHistory' = Append(chatHistory,
                    CASE outcome = "failed" ->
                           ChatMessage("ai", <<"Error processing your request: ", errorMessage>>)
                      [] outcome = "applied" ->
                           ChatMessage("ai", <<"Your changes have been applied to the document.">>)
                      [] OTHER -> ChatMessage("ai", <<aiResponseText>>))
              /\ aiChatError' =
                    CASE outcome = "failed" -> Some(errorMessage)
                      [] outcome = "applied" -> aiChatError
                      [] OTHER -> Some("AI responded, but it wasn't a valid document update. See chat for AI's message.")
    /\ isAIChatProcessing' = FALSE
    /\ chatCall' = None
    /\ UNCHANGED <<serviceVars, restVars, loadVars, exportVars, spanEdit, ai, chatCalls>>

NextChat == ChatSubmitNoClient \/ ChatSubmitEmptyDocument \/ ChatSubmit \/ ChatResponse

SpecChat == InitChat /\ [][NextChat]_vars

\* the response texts that are a JSON array, bare or fenced, whose blocks
\* all have a string id and blockType, a spans array of spans with a string
\* text when not a table, and rows, cells and content arrays when a table
ValidDocumentTexts ==
    {TextEmptyArray, TextFencedEmptyArray, TextParagraph, TextTable, TextTwoParagraphs}

\* the latest call answered with a valid document
ValidDocumentResponse(r) ==
    /\ IsSome(r.response)
    /\ Val(r.response).rejection = None
    /\ Val(r.response).text \in ValidDocumentTexts

\* C27: a handleAIChatSubmit call changes the document only when the
\* response is a JSON array whose blocks all pass the structural validation;
\* when a call ends with any other outcome (no AI client, empty document,
\* empty response, non-JSON text, invalid structure, request failure) the
\* document is as before, one message was appended to the chat history,
\* aiChatError is set and isAIChatProcessing is false.
C27_ChatFrame ==
    [][(IsSome(chatReturn') /\ chatReturn' # chatReturn) =>
         /\ formattedText' # formattedText => ValidDocumentResponse(Val(chatReturn'))
         /\ ~ValidDocumentResponse(Val(chatReturn')) =>
               /\ formattedText' = formattedText
               /\ Len(chatHistory') = Len(chatHistory) + 1
               /\ SubSeq(chatHistory', 1, Len(chatHistory)) = chatHistory
               /\ IsSome(aiChatError')
               /\ isAIChatProcessing' = FALSE]_vars

\* the second call has just ended on an array whose second block has a
\* number for id, after the first call replaced the document by two
\* paragraphs: the document is still those two paragraphs
C27_Witness ==
    /\ IsSome(chatReturn)
    /\ Val(chatReturn).call = 2
    /\ Val(chatReturn).response = Some([rejection |-> None, text |-> TextSecondIdNumber])
    /\ Len(formattedText) = 2
    /\ formattedText[2].id = "b2"
    /\ formattedText[2].spans[1].text = <<120>>
    /\ Len(chatHistory) = 4
    /\ chatHistory[4] = ChatMessage("ai", <<TextSecondIdNumber>>)
    /\ IsSome(aiChatError)
    /\ ~isAIChatProcessing

\* ---------------------------------------------------------------------
\* The export of the App component: handleExport
\* ---------------------------------------------------------------------

ExportFormat == {"docx-word", "docx-gdocs", "pdf", "png"}

\* format.toUpperCase()
ToUpperCase(format) ==
    CASE format = "docx-word" -> "DOCX-WORD"
      [] format = "docx-gdocs" -> "DOCX-GDOCS"
      [] format = "pdf" -> "PDF"
      [] format = "png" -> "PNG"

\* formatName once the generator has resolved
ExportedFormatName(format) ==
    CASE format = "docx-word" -> "Microsoft Word (.docx)"
      [] format = "docx-gdocs" -> "Google Docs (.docx)"
      [] OTHER -> ToUpperCase(format)

\* a stage or an error message is the sequence of the pieces of its
\* template literal

\* the messages of the errors a generator rejects with
ExportErrorMessages == {"Out of memory"}

InitExport ==
    /\ formattedText \in {EditDoc, <<>>}
    /\ spanEdit = None
    /\ isLoading = FALSE /\ error = None /\ progressPercent \in {0, 100}
    /\ currentStage = (IF progressPercent = 100 THEN <<"Completed">> ELSE <<"idle">>)
    /\ exportCall = None /\ exportLog = <<>> /\ timers = <<>>
    /\ IdleRuns /\ IdlePt /\ IdleFont /\ IdleDoc /\ IdleChat /\ IdleRest

\* handleExport returning at its guard: no viewer element or no block
HandleExportNoContent ==
    /\ ~isLoading /\ Len(exportLog) < MaxExports
    /\ \E format \in ExportFormat :
       \E canvasElement \in (IF Len(formattedText) > 0 THEN {TRUE} ELSE BOOLEAN) :
          /\ ~canvasElement \/ Len(formattedText) = 0
          /\ exportLog' = Append(exportLog, [format |-> format, outcome |-> "not started"])
    /\ UNCHANGED <<serviceVars, restVars, docVars, chatVars, loadVars, exportCall, timers>>

\* handleExport up to its await of the generator; the call keeps the
\* currentStage of the render that created it
HandleExport ==
    /\ ~isLoading /\ Len(exportLog) < MaxExports
    /\ Len(formattedText) # 0
    /\ \E format \in ExportFormat :
          /\ exportCall' = Some([format |-> format, currentStage |-> currentStage])
          /\ currentStage' = <<"Exporting to ", ToUpperCase(format), "...">>
    /\ isLoading' = TRUE
    /\ progressPercent' = 0
    /\ error' = None
    /\ UNCHANGED <<restVars,
                   runsCall, runsRet, ptCall, ptRet, fontCalls, fontRet, blocks,
                   targetApplication, docxObjects, pc, packerError, rejected, savedFiles,
                   docVars, chatVars, exportLog, timers>>

\* handleExport from the settling of the generator to its end
HandleExportSettled ==
    /\ IsSome(exportCall)
    /\ LET format == Val(exportCall).format
       IN  \/ /\ progressPercent' = 100
              /\ currentStage' = <<"Exported ", ExportedFormatName(format)>>
              /\ savedFiles' =
                    CASE format = "docx-word" ->
                           Append(savedFiles,
                                  [blob |-> createDocumentContent(formattedText, "word"),
                                   filename |-> "extracted_text_word.docx"])
                      [] format = "docx-gdocs" ->
                           Append(savedFiles,
                                  [blob |-> createDocumentContent(formattedText, "gdocs"),
                                   filename |-> "extracted_text_gdocs.docx"])
                      [] OTHER -> savedFiles
              /\ exportLog' = Append(exportLog, [format |-> format, outcome |-> "exported"])
              /\ UNCHANGED error
           \/ /\ \E message \in ExportErrorMessages :
                    error' = Some(<<"Failed to export as ", ToUpperCase(format), ". ", message>>)
              /\ currentStage' = <<"Export Error">>
              /\ exportLog' = Append(exportLog, [format |-> format, outcome |-> "failed"])
              /\ UNCHANGED <<progressPercent, savedFiles>>
    /\ isLoading' = FALSE
    /\ timers' = Append(timers, [call |-> Len(exportLog) + 1,
                                 currentStage |-> Val(exportCall).currentStage])
    /\ exportCall' = None
    /\ UNCHANGED <<restVars,
                   runsCall, runsRet, ptCall, ptRet, fontCalls, fontRet, blocks,
                   targetApplication, docxObjects, pc, packerError, rejected,
                   docVars, chatVars>>

\* the callback handleExport handed to setTimeout, run after 1.5 s
ExportTimeout ==
    /\ timers # <<>>
    /\ currentStage' = IF Head(timers).currentStage # <<"Export Error">>
                       THEN <<"idle">> ELSE currentStage
    /\ timers' = Tail(timers)
    /\ UNCHANGED <<serviceVars, restVars, docVars, chatVars, isLoading, error, progressPercent,
                   exportCall, exportLog>>

NextExport == HandleExportNoContent \/ HandleExport \/ HandleExportSettled \/ ExportTimeout

SpecExport == InitExport /\ [][NextExport]_vars

\* the step is the end of a handleExport call with that outcome
EndsExport(outcome) ==
    /\ Len(exportLog') = Len(exportLog) + 1
    /\ exportLog'[Len(exportLog')].outcome = outcome

\* the step runs the timer of the latest handleExport call, no later call
\* having started, and that call ended with that outcome
RunsTimerOfLatest(outcome) ==
    /\ timers # <<>> /\ timers' = Tail(timers)
    /\ Head(timers).call = Len(exportLog)
    /\ exportCall = None
    /\ exportLog[Head(timers).call].outcome = outcome

\* C28: a handleExport call on an empty document or without viewer element
\* changes no state; isLoading is true while an export runs and false once
\* it ends; the timer of a successful export sets the stage to 'idle'; after
\* a failed export the error is set and the timer leaves the stage at
\* 'Export Error'.
C28_ExportStages ==
    [][/\ EndsExport("not started") => UNCHANGED <<docVars, chatVars, loadVars, savedFiles>>
       /\ IsSome(exportCall) => isLoading
       /\ (EndsExport("exported") \/ EndsExport("failed")) => ~isLoading'
       /\ EndsExport("failed") => IsSome(error') /\ currentStage' = <<"Export Error">>
       /\ RunsTimerOfLatest("exported") => currentStage' = <<"idle">>
       /\ RunsTimerOfLatest("failed") =>
             IsSome(error') /\ currentStage' = <<"Export Error">>]_vars

\* ---------------------------------------------------------------------
\* The debounced span edits of RenderSpans: handleSpanInput
\* ---------------------------------------------------------------------

\* the editable RenderSpans components of the document EditDoc: the one of
\* paragraph "b1" and the one of the first cell of table "t1"
SpanComponents ==
    {[blockId |-> "b1", spanPath |-> None],
     [blockId |-> "t1", spanPath |-> Some([rowIndex |-> 0, cellIndex |-> 0])]}

\* the indexes of the spans each of them renders
SpanIndexesOf(component) == IF component.blockId = "b1" THEN {0, 1} ELSE {0}

\* the texts an input event reports
InputTexts == {<<120>>, <<121>>}

\* spanPath?.rowIndex and spanPath?.cellIndex
RowIndexOf(component) ==
    IF IsSome(component.spanPath) THEN Some(Val(component.spanPath).rowIndex) ELSE None
CellIndexOf(component) ==
    IF IsSome(component.spanPath) THEN Some(Val(component.spanPath).cellIndex) ELSE None

\* index ?? 'p'
OrP(index) == IF IsSome(index) THEN index ELSE <<"p">>

\* the pieces of the template literal of timerKey
TimerKey(component, spanIndex) ==
    <<component.blockId, "-", OrP(RowIndexOf(component)), "-",
      OrP(CellIndexOf(component)), "-", spanIndex>>

\* the keys of every span with an editable component
AllTimerKeys ==
    {TimerKey(component, spanIndex) :
        component \in SpanComponents, spanIndex \in {0, 1}}

InitViewer ==
    /\ formattedText = EditDoc
    /\ spanEdit = None
    /\ now = 0
    /\ debounceTimers = [component \in SpanComponents |-> {}]
    /\ mounted = TRUE
    /\ isSelectAndCopyModeActive = FALSE
    /\ lastInput = [key \in AllTimerKeys |-> None]
    /\ spanInputs = 0 /\ spanChanges = 0
    /\ IdleRuns /\ IdlePt /\ IdleFont /\ IdleDoc /\ IdleChat /\ IdleLoad /\ IdleExport
    /\ IdleImage

\* an input event on a span that is editable (a span is contentEditable
\* only outside the select-and-copy mode), and the handleSpanInput call it
\* makes
HandleSpanInput ==
    /\ mounted /\ ~isSelectAndCopyModeActive
    /\ spanInputs < MaxInputs
    /\ \E component \in SpanComponents :
       \E spanIndex \in SpanIndexesOf(component) :
       \E newText \in InputTexts :
          LET timerKey == TimerKey(component, spanIndex)
          IN  /\ lastInput' = [lastInput EXCEPT ![timerKey] =
                                  Some([text |-> newText, time |-> now])]
              /\ debounceTimers' =
                    IF isSelectAndCopyModeActive THEN debounceTimers
                    ELSE [debounceTimers EXCEPT ![component] =
                            {t \in @ : t.timerKey # timerKey}
                            \cup {[timerKey |-> timerKey, spanIndex |-> spanIndex,
                                   newText |-> newText, due |-> now + DebounceDelay]}]
    /\ spanInputs' = spanInputs + 1
    /\ UNCHANGED <<serviceVars, docVars, chatVars, loadVars, exportVars, imageVars,
                   now, mounted, isSelectAndCopyModeActive, spanChanges>>

\* the callback of a debounce timer, run when its delay has passed
DebounceTimeout ==
    /\ \E component \in SpanComponents :
       \E t \in debounceTimers[component] :
          /\ t.due <= now
          /\ formattedText' = handleSpanTextChange(formattedText, component.blockId,
                                 t.spanIndex, t.newText,
                                 RowIndexOf(component), CellIndexOf(component))
          /\ spanEdit' = Some([blockId |-> component.blockId, spanIndex |-> t.spanIndex,
                               newText |-> t.newText, rowIndex |-> RowIndexOf(component),
                               cellIndex |-> CellIndexOf(component)])
          /\ debounceTimers' = [debounceTimers EXCEPT ![component] = @ \ {t}]
    /\ spanChanges' = spanChanges + 1
    /\ UNCHANGED <<serviceVars, chatVars, loadVars, exportVars, imageVars,
                   now, mounted, isSelectAndCopyModeActive, lastInput, spanInputs>>

\* time passes, by half the debounce delay; a timer runs when it is due
TimePasses ==
    /\ now + DebounceDelay \div 2 <= MaxTime
    /\ \A component \in SpanComponents :
          \A t \in debounceTimers[component] : t.due > now
    /\ now' = now + DebounceDelay \div 2
    /\ UNCHANGED <<serviceVars, docVars, chatVars, loadVars, exportVars, imageVars,
                   debounceTimers, mounted, isSelectAndCopyModeActive,
                   lastInput, spanInputs, spanChanges>>

\* handleToggleSelectAndCopyMode
HandleToggleSelectAndCopyMode ==
    /\ mounted
    /\ isSelectAndCopyModeActive' = ~isSelectAndCopyModeActive
    /\ UNCHANGED <<serviceVars, docVars, chatVars, loadVars, exportVars, imageVars,
                   now, debounceTimers, mounted, lastInput, spanInputs, spanChanges>>

\* the RenderSpans components unmount: the cleanup of each clears its timers
UnmountSpans ==
    /\ mounted
    /\ mounted' = FALSE
    /\ debounceTimers' = [component \in SpanComponents |-> {}]
    /\ UNCHANGED <<serviceVars, docVars, chatVars, loadVars, exportVars, imageVars,
                   now, isSelectAndCopyModeActive, lastInput, spanInputs, spanChanges>>

NextViewer ==
    \/ HandleSpanInput \/ DebounceTimeout \/ TimePasses
    \/ HandleToggleSelectAndCopyMode \/ UnmountSpans

SpecViewer == InitViewer /\ [][NextViewer]_vars

\* the pending timers of the spans other than the one with that key
PendingOfOthers(pending, timerKey) ==
    [component \in SpanComponents |->
        {t \in pending[component] : t.timerKey # timerKey}]

\* the key of the span an onSpanTextChange invocation names
KeyOfEdit(e) ==
    TimerKey([blockId |-> e.blockId,
              spanPath |-> IF IsSome(e.rowIndex)
                           THEN Some([rowIndex |-> Val(e.rowIndex),
                                      cellIndex |-> Val(e.cellIndex)])
                           ELSE None],
             e.spanIndex)

\* C29: an onSpanTextChange invocation comes 500 ms after the latest input
\* event of its span and carries that event's text, no timer of that span is
\* left pending, the components are mounted and the select-and-copy mode is
\* not active; neither an input event nor an invocation changes the pending
\* timers of another span.
C29_Debounce ==
    [][/\ spanChanges' = spanChanges + 1 =>
             LET e == Val(spanEdit')
                 timerKey == KeyOfEdit(e)
             IN  /\ IsSome(lastInput[timerKey])
                 /\ e.newText = Val(lastInput[timerKey]).text
                 /\ now = Val(lastInput[timerKey]).time + DebounceDelay
                 /\ \A component \in SpanComponents :
                       \A t \in debounceTimers'[component] : t.timerKey # timerKey
                 /\ PendingOfOthers(debounceTimers', timerKey) =
                      PendingOfOthers(debounceTimers, timerKey)
                 /\ mounted
                 /\ ~isSelectAndCopyModeActive
       /\ spanInputs' = spanInputs + 1 =>
             \A timerKey \in AllTimerKeys :
                lastInput'[timerKey] # lastInput[timerKey] =>
                   PendingOfOthers(debounceTimers', timerKey) =
                      PendingOfOthers(debounceTimers, timerKey)]_vars

\* ---------------------------------------------------------------------
\* The extraction of the App component: handleImageUpload and processImage
\* ---------------------------------------------------------------------

\* the progress after an interval tick at progress prev, restarting from 1
ThinkingProgressFromOne(prev) ==
    IF prev + thinkingStepIncrement >= thinkingEndProgress THEN thinkingEndProgress
    ELSE IF prev = thinkingStartProgress THEN thinkingStepIncrement
    ELSE prev + thinkingStepIncrement

\* the progress the updater of the interval returns at progress prev
ThinkingProgress(prev) ==
    IF prev + thinkingStepIncrement >= thinkingEndProgress THEN thinkingEndProgress
    ELSE prev + thinkingStepIncrement

\* the progress set after the delay that follows the setting of a progress
NextDelay(progress) ==
    CASE progress = 2 -> 5
      [] progress = 5 -> 8
      [] progress = 8 -> 12
      [] progress = 12 -> thinkingStartProgress
      [] progress = 75 -> 80
      [] progress = 80 -> 85
      [] progress = 85 -> 92
      [] progress = 92 -> 98

\* what ai.models.generateContent settles with for an image
ImageResponses ==
    {[rejection |-> Some("403 PERMISSION_DENIED"), text |-> TextNone],
     [rejection |-> Some("Failed to fetch"), text |-> TextNone],
     [rejection |-> Some(""), text |-> TextNone]}
    \cup {[rejection |-> None, text |-> t] :
            t \in {TextNone, TextProse, TextObject, TextEmptyArray, TextFencedEmptyArray,
                   TextParagraph, TextTable, TextSecondIdNumber, TextNoRows}}

\* the error message the catch block derives from the message of the error
ImageErrorMessage(message) ==
    CASE message = "" ->
           <<"Failed to process the image. The AI model could not be reached or returned an error.">>
      [] message = "403 PERMISSION_DENIED" ->
           <<"Error: Permission Denied (403).">>
      [] OTHER -> <<"An unexpected error occurred: ", message>>

\* the message of the error thrown for a response text that is not a valid
\* document, None for a valid one
ImageParseFailure(jsonStr) ==
    LET parsedData == JSONParse(jsonStr)
    IN  IF ~IsSome(parsedData)
        THEN Some("Failed to parse AI's JSON response. SyntaxError")
        ELSE IF ~ArrayIsArray(Val(parsedData))
        THEN Some("Failed to parse AI's JSON response. root is not an array.")
        ELSE IF ~\A i \in 1..Len(Val(parsedData).value) : BlockIsValid(Val(parsedData).value[i])
        THEN Some("Failed to parse AI's JSON response. One or more blocks do not match the expected structure.")
        ELSE None

InitImage ==
    /\ formattedText \in {EditDoc, <<>>}
    /\ spanEdit = None
    /\ ai \in BOOLEAN
    /\ chatHistory \in {<<>>, <<ChatMessage("user", <<"Make the first heading blue">>)>>}
    /\ aiChatError = None /\ isAIChatProcessing = FALSE
    /\ chatCalls = 0 /\ chatCall = None /\ chatReturn = None
    /\ isLoading = FALSE /\ error = None /\ progressPercent \in {0, 100}
    /\ currentStage = (IF progressPercent = 100 THEN <<"Completed">> ELSE <<"idle">>)
    /\ progressIntervalRef = FALSE /\ imageCall = None /\ imageLog = <<>>
    /\ IdleRuns /\ IdlePt /\ IdleFont /\ IdleDoc /\ IdleExport /\ IdleViewer

\* the catch block and the finally block of processImage, for an error
\* with that message; the call keeps the error and the currentStage of the
\* render that created it
ImageFails(message, response) ==
    /\ error' = Some(ImageErrorMessage(message))
    /\ currentStage' = <<"Error">>
    /\ progressPercent' = 0
    /\ progressIntervalRef' = FALSE
    /\ isLoading' = FALSE
    /\ timers' = IF /\ ~IsSome(Val(imageCall).error)
                    /\ Val(imageCall).currentStage # <<"Completed">>
                 THEN Append(timers, [call |-> Len(imageLog) + 1,
                                      currentStage |-> Val(imageCall).currentStage])
                 ELSE timers
    /\ imageLog' = Append(imageLog, [ai |-> TRUE, response |-> response])
    /\ imageCall' = None

\* handleImageUpload with the processImage call it makes, up to the first
\* await, or to the return without AI client
HandleImageUpload ==
    /\ ~isLoading /\ imageCall = None /\ Len(imageLog) < MaxImages
    /\ formattedText' = <<>>
    /\ isSelectAndCopyModeActive' = FALSE
    /\ chatHistory' = <<>>
    /\ aiChatError' = None
    /\ progressIntervalRef' = FALSE
    /\ IF ~ai
       THEN /\ error' = Some(<<"AI client is not initialized. This could be due to a missing/invalid API Key or an initialization error. Please ensure API_KEY is set and valid in your execution environment.">>)
            /\ isLoading' = FALSE
            /\ currentStage' = <<"Error">>
            /\ progressPercent' = 0
            /\ imageLog' = Append(imageLog, [ai |-> FALSE, response |-> None])
            /\ UNCHANGED imageCall
       ELSE /\ error' = None
            /\ isLoading' = TRUE
            /\ currentStage' = <<"Uploading Image...">>
            /\ progressPercent' = 0
            /\ imageCall' = Some([pc |-> "delay", next |-> 2, response |-> None,
                                  error |-> error, currentStage |-> currentStage])
            /\ UNCHANGED imageLog
    /\ UNCHANGED <<serviceVars, spanEdit, ai, isAIChatProcessing, chatCalls, chatCall,
                   chatReturn, exportVars, now, debounceTimers, mounted, lastInput,
                   spanInputs, spanChanges>>

\* processImage from the end of one of its delays to its next await or to
\* its end
ImageDelay ==
    /\ IsSome(imageCall)
    /\ LET call == Val(imageCall)
           jsonStr == FenceContent(Trim(Val(call.response).text))
       IN  \/ /\ call.pc = "delay" /\ call.next < thinkingStartProgress
              /\ progressPercent' = call.next
              /\ currentStage' = IF call.next = 5 THEN <<"Preparing AI Request...">>
                                 ELSE currentStage
              /\ imageCall' = Some([call EXCEPT !.next = NextDelay(call.next)])
              /\ UNCHANGED <<formattedText, error, isLoading, progressIntervalRef,
                             timers, imageLog>>
           \/ /\ call.pc = "delay" /\ call.next = thinkingStartProgress
              /\ progressPercent' = call.next
              /\ currentStage' = <<"AI Processing...">>
              /\ progressIntervalRef' = TRUE
              /\ imageCall' = Some([call EXCEPT !.pc = "thinking"])
              /\ UNCHANGED <<formattedText, error, isLoading, timers, imageLog>>
           \/ /\ call.pc = "delay" /\ call.next \in {75, 92}
              /\ progressPercent' = call.next
              /\ imageCall' = Some([call EXCEPT !.next = NextDelay(call.next)])
              /\ UNCHANGED <<formattedText, error, isLoading, currentStage,
                             progressIntervalRef, timers, imageLog>>
           \/ /\ call.pc = "delay" /\ call.next = 80
              /\ IF Val(call.response).text = ""
                 THEN /\ ImageFails("Received empty response from AI model. The model might not have found any text or an internal error occurred.",
                                    call.response)
                      /\ UNCHANGED formattedText
                 ELSE /\ progressPercent' = call.next
                      /\ imageCall' = Some([call EXCEPT !.next = NextDelay(call.next)])
                      /\ UNCHANGED <<formattedText, error, isLoading, currentStage,
                                     progressIntervalRef, timers, imageLog>>
           \/ /\ call.pc = "delay" /\ call.next = 85
              /\ IF IsSome(ImageParseFailure(jsonStr))
                 THEN /\ ImageFails(Val(ImageParseFailure(jsonStr)), call.response)
                      /\ UNCHANGED formattedText
                 ELSE /\ progressPercent' = call.next
                      /\ formattedText' = FromJson(Val(JSONParse(jsonStr)))
                      /\ imageCall' = Some([call EXCEPT !.next = NextDelay(call.next)])
                      /\ UNCHANGED <<error, isLoading, currentStage,
                                     progressIntervalRef, timers, imageLog>>
           \/ /\ call.pc = "delay" /\ call.next = 98
              /\ progressPercent' = 100
              /\ currentStage' = <<"Completed">>
              /\ imageCall' = Some([call EXCEPT !.pc = "completed"])
              /\ UNCHANGED <<formattedText, error, isLoading, progressIntervalRef,
                             timers, imageLog>>
           \/ /\ call.pc = "completed"
              /\ progressIntervalRef' = FALSE
              /\ isLoading' = FALSE
              /\ timers' = IF ~IsSome(call.error) /\ call.currentStage # <<"Completed">>
                           THEN Append(timers, [call |-> Len(imageLog) + 1,
                                                currentStage |-> call.currentStage])
                           ELSE timers
              /\ imageLog' = Append(imageLog, [ai |-> TRUE, response |-> call.response])
              /\ imageCall' = None
              /\ UNCHANGED <<formattedText, error, currentStage, progressPercent>>
    /\ UNCHANGED <<serviceVars, spanEdit, chatVars, exportCall, exportLog, viewerVars>>

\* one tick of the progress interval of the thinking phase
ProgressIntervalTick ==
    /\ IsSome(imageCall) /\ Val(imageCall).pc = "thinking"
    /\ progressIntervalRef
    /\ progressPercent' = ThinkingProgress(progressPercent)
    /\ IF progressPercent + thinkingStepIncrement >= thinkingEndProgress
       THEN /\ progressIntervalRef' = FALSE
            /\ imageCall' = Some([Val(imageCall) EXCEPT !.pc = "request"])
       ELSE UNCHANGED <<progressIntervalRef, imageCall>>
    /\ UNCHANGED <<serviceVars, docVars, chatVars, isLoading, error, currentStage,
                   exportVars, viewerVars, imageLog>>

\* processImage from the settling of generateContent to its next await or
\* to its end
ImageResponse ==
    /\ IsSome(imageCall) /\ Val(imageCall).pc = "request"
    /\ \E response \in ImageResponses :
          IF IsSome(response.rejection)
          THEN /\ ImageFails(Val(response.rejection), Some(response))
               /\ UNCHANGED formattedText
          ELSE /\ progressPercent' = 70
               /\ currentStage' = <<"Parsing Response...">>
               /\ imageCall' = Some([Val(imageCall) EXCEPT !.pc = "delay", !.next = 75,
                                                           !.response = Some(response)])
               /\ UNCHANGED <<formattedText, error, isLoading, progressIntervalRef,
                              timers, imageLog>>
    /\ UNCHANGED <<serviceVars, spanEdit, chatVars, exportCall, exportLog, viewerVars>>

\* the callback processImage handed to setTimeout, run after 1.5 s
ImageTimeout ==
    /\ timers # <<>>
    /\ currentStage' = IF /\ Head(timers).currentStage # <<"Error">>
                          /\ Head(timers).currentStage # <<"Completed">>
                       THEN <<"idle">> ELSE currentStage
    /\ timers' = Tail(timers)
    /\ UNCHANGED <<serviceVars, docVars, chatVars, isLoading, error, progressPercent,
                   exportCall, exportLog, viewerVars, imageVars>>

NextImage ==
    HandleImageUpload \/ ImageDelay \/ ProgressIntervalTick \/ ImageResponse \/ ImageTimeout

\* the delays elapse, the interval ticks and the request settles
SpecImage ==
    /\ InitImage /\ [][NextImage]_vars
    /\ WF_vars(ImageDelay) /\ WF_vars(ProgressIntervalTick) /\ WF_vars(ImageResponse)

\* the step is the end of a processImage call
ImageEnds == Len(imageLog') = Len(imageLog) + 1

\* the call of that log entry had an AI client and was answered with a valid
\* document
ImageSucceeds(entry) ==
    /\ entry.ai
    /\ IsSome(entry.response)
    /\ Val(entry.response).rejection = None
    /\ Val(entry.response).text \in ValidDocumentTexts

\* C30: every processImage call ends, with isLoading false and no progress
\* interval running; a call without AI client, with a failed request or with
\* a response that is not a valid document ends with the error set, the
\* progress 0 and the document empty; a call answered with a valid document
\* ends with the progress 100, and no step of it decreased the progress.
C30_ProcessImage ==
    /\ [][/\ ImageEnds => ~isLoading' /\ ~progressIntervalRef'
          /\ (ImageEnds /\ ~ImageSucceeds(imageLog'[Len(imageLog')])) =>
                /\ IsSome(error')
                /\ progressPercent' = 0
                /\ formattedText' = <<>>
          /\ (ImageEnds /\ ImageSucceeds(imageLog'[Len(imageLog')])) =>
                progressPercent' = 100
          /\ (/\ IsSome(imageCall)
              /\ \/ IsSome(imageCall')
                 \/ ImageEnds /\ ImageSucceeds(imageLog'[Len(imageLog')])) =>
                progressPercent' >= progressPercent]_vars
    /\ (IsSome(imageCall) ~> imageCall = None)

\* a second call has just ended on a valid paragraph, after a first call
\* ended on a table without rows
C30_Witness ==
    /\ Len(imageLog) = 2
    /\ imageLog[1].response = Some([rejection |-> None, text |-> TextNoRows])
    /\ imageLog[2].response = Some([rejection |-> None, text |-> TextParagraph])
    /\ imageCall = None
    /\ ~isLoading /\ ~progressIntervalRef
    /\ progressPercent = 100
    /\ Len(formattedText) = 1
    /\ formattedText[1].id = "b1"

=============================================================================
